---------------------------- MODULE Spec2Model ----------------------------
(***************************************************************************)
(* Model of the SRP chat server (Server, ConnectionManager, SRPServer),     *)
(* the SRP client and the SRP-6a arithmetic (SRPUtils).                     *)
(*                                                                          *)
(* Byte strings are sequences of limbs (naturals); SHA-256 is a polynomial  *)
(* digest over a prime field that yields one limb; the 2048-bit group of    *)
(* RFC 5054 is replaced by the safe prime 46199 = 2*23099+1 with generator  *)
(* 2, so that every BIGNUM operation is computed as the code computes it.   *)
(***************************************************************************)
EXTENDS Integers, Sequences, FiniteSets, TLC

(***************************** bounds ***************************************)
NumConns == 2       \* connections accepted during one run
MaxMsgs == 1        \* MESSAGE frames a client sends (Spec)
MaxOverflow == 2    \* insertions beyond kMaxMessageHistory (HistorySpec)
MaxFaults == 1      \* transport faults (peer close / reset) during one run

(************************* program constants ********************************)
N == 46199                    \* SRP_N_HEX_2048, scaled to a 16-bit safe prime
g == 2                        \* SRP_G_HEX
HashPrime == 46337            \* range of the digest that stands for SHA-256
kMaxMessageHistory == 100
KEY_SIZE == 32

(************************* SRPUtils: BigNum *********************************)
\* BN_bin2bn on a big-endian limb string; the empty string is 0.
RECURSIVE BigNum(_)
BigNum(bytes) ==
    IF Len(bytes) = 0 THEN 0
    ELSE BigNum(SubSeq(bytes, 1, Len(bytes) - 1)) * HashPrime + bytes[Len(bytes)]

\* BN_bn2bin: minimal big-endian form, so 0 is the empty string.
to_bytes(n) == IF n = 0 THEN << >> ELSE << n >>

\* BN_mod_exp: base^e mod m, with x^0 = 1.
RECURSIVE ModExpAcc(_, _, _, _)
ModExpAcc(acc, base, e, m) ==
    IF e = 0 THEN acc
    ELSE ModExpAcc(IF e % 2 = 1 THEN (acc * base) % m ELSE acc,
                   (base * base) % m, e \div 2, m)

ModExp(base, e, m) == ModExpAcc(1 % m, base % m, e, m)

RECURSIVE Xor(_, _)
Xor(a, b) ==
    IF a = 0 THEN b
    ELSE IF b = 0 THEN a
    ELSE 2 * Xor(a \div 2, b \div 2) + (((a % 2) + (b % 2)) % 2)

RECURSIVE Concat(_)
Concat(values) ==
    IF Len(values) = 0 THEN << >> ELSE Head(values) \o Concat(Tail(values))

RECURSIVE Digest(_, _)
Digest(h, bytes) ==
    IF Len(bytes) = 0 THEN h
    ELSE Digest((h * 31 + Head(bytes) + 1) % HashPrime, Tail(bytes))

hash_sha256(data) == << Digest(7, data) >>

hash_multiple(values) == hash_sha256(Concat(values))

xor_bytes(a, b) == [i \in 1..Len(a) |-> Xor(a[i], b[i])]

\* the bytes of a std::string
StrBytes(s) ==
    CASE s = "" -> << >>
      [] s = "alice" -> << 97 >>
      [] s = "bob" -> << 98 >>
      [] s = "carol" -> << 99 >>
      [] s = "sesame" -> << 115 >>
      [] s = "password" -> << 112 >>
      [] s = "guess" -> << 103 >>

(************************* SRPUtils: SRP-6a *********************************)
calculate_k == BigNum(hash_multiple(<< to_bytes(N), to_bytes(g) >>))

calculate_u(A, B) == BigNum(hash_multiple(<< to_bytes(A), to_bytes(B) >>))

calculate_x(salt, username, password) ==
    LET identity == StrBytes(username) \o << 58 >> \o StrBytes(password)
        inner_hash == hash_sha256(identity)
    IN BigNum(hash_sha256(salt \o inner_hash))

calculate_verifier(x) == ModExp(g, x, N)

calculate_B(k, v, b) ==
    LET kv == (k * v) % N
        gb == ModExp(g, b, N)
    IN (kv + gb) % N

calculate_S_client(B, k, x, a, u) ==
    LET gx == ModExp(g, x, N)
        kgx == (k * gx) % N
        base == (((B - kgx) % N) + N) % N
        ux == u * x
        exp == a + ux
    IN ModExp(base, exp, N)

calculate_S_server(A, v, u, b) ==
    LET vu == ModExp(v, u, N)
        base == (A * vu) % N
    IN ModExp(base, b, N)

calculate_K(S) == hash_sha256(to_bytes(S))

calculate_M(username, salt, A, B, K) ==
    LET H_N == hash_sha256(to_bytes(N))
        H_g == hash_sha256(to_bytes(g))
        H_N_xor_H_g == xor_bytes(H_N, H_g)
        H_username == hash_sha256(StrBytes(username))
    IN hash_multiple(<< H_N_xor_H_g, H_username, salt, to_bytes(A), to_bytes(B), K >>)

calculate_H_AMK(A, M, K) == hash_multiple(<< to_bytes(A), M, K >>)


(************************* encodings ****************************************)
\* SRPUtils::bytes_to_base64 / base64_to_bytes: a base64 text is not the bytes
\* it encodes; decoding strips exactly one layer of encoding.
bytes_to_base64(bytes) == [b64 |-> bytes]
base64_to_bytes(text) == text.b64

\* std::vector<uint8_t>(32) from random_bytes(32), named by its content
KeyBytes(id) == [id |-> id, size |-> KEY_SIZE]
NoKey == [id |-> 0, size |-> 0]

\* AESEngine::encrypt_string / decrypt_string: an envelope opens only under
\* the key that made it
encrypt_string(text, key) == [sealed |-> key.id, text |-> text]
DecryptOk(envelope, key) == key.size = KEY_SIZE /\ envelope.sealed = key.id
decrypt_string(envelope, key) == envelope.text
Garbage == [sealed |-> 0, text |-> << >>]

(************************* finite maps **************************************)
Put(f, k, v) == [y \in (DOMAIN f) \cup {k} |-> IF y = k THEN v ELSE f[y]]
Del(f, k) == [y \in (DOMAIN f) \ {k} |-> f[y]]
EmptyMap == [y \in {} |-> 0]

(************************* the environment **********************************)
Conns == 1..NumConns

\* values generate_user_id may return on a connection, named in the order of
\* the connections; two connections may draw the same one
IdsFor(c) == IF c = 1 THEN {"user_1"} ELSE {"user_1", "user_2"}

\* what the client of a connection does: an honest SRPClient with its
\* password and ephemeral secret a; a client that sends a chosen A and a proof
\* made from public values only, either for S = 0 ("zeroA") or for the session
\* that holds no credentials ("forge")
Honest(username, password, a, salt) ==
    [kind |-> "honest", username |-> username, password |-> password,
     a |-> a, A |-> 0, salt |-> salt]
ZeroA(username, A) ==
    [kind |-> "zeroA", username |-> username, password |-> "",
     a |-> 0, A |-> A, salt |-> << >>]
Forge(username, A) ==
    [kind |-> "forge", username |-> username, password |-> "",
     a |-> 0, A |-> A, salt |-> << >>]

Pair(p, q) == [c \in Conns |-> IF c = 1 THEN p ELSE q]

\* the clients of one run of Spec
Scenarios ==
    {Pair(Honest("alice", "sesame", 3, << 1 >>), Honest("alice", "sesame", 5, << 1 >>)),
     Pair(Honest("alice", "sesame", 3, << 1 >>), Honest("bob", "password", 5, << 2 >>)),
     Pair(Honest("alice", "guess", 6, << 1 >>), Honest("alice", "sesame", 3, << 1 >>)),
     Pair(ZeroA("alice", 0), Honest("bob", "password", 5, << 2 >>)),
     Pair(ZeroA("bob", N), Honest("alice", "sesame", 3, << 1 >>)),
     Pair(Forge("alice", 0), Forge("alice", 2)),
     Pair(Forge("alice", 2), Forge("bob", N)),
     Pair(Honest("carol", "guess", 2, << 3 >>), Honest("carol", "guess", 2, << 3 >>))}

Credentials(username, password, salt) ==
    [username |-> username, salt |-> salt,
     verifier |-> to_bytes(calculate_verifier(calculate_x(salt, username, password)))]

\* users.db as loaded by the constructor
StoredUsers ==
    [un \in {"alice", "bob"} |->
        IF un = "alice" THEN Credentials("alice", "sesame", << 1 >>)
        ELSE Credentials("bob", "password", << 2 >>)]

\* what random_bytes(32) returns to the worker of each connection: the secret
\* b of init_authentication and the session key of verify_authentication
Entropy(secrets) ==
    {[c \in Conns |-> [b |-> s[c], key |-> 10 + c]] : s \in [Conns -> secrets]}

VARIABLES
    movedFromKeeps,        \* whether a moved-from std::string keeps its value
    alive,                 \* FALSE once std::terminate has been called
    users_,                \* SRPServer::users_
    sessions_,             \* SRPServer::sessions_
    connections_,          \* ConnectionManager::connections_
    user_id_to_username_,  \* ConnectionManager::user_id_to_username_
    user_keys_,            \* Server::user_keys_
    message_history_,      \* Server::message_history_
    msgLock,               \* owner of Server::message_mutex_, 0 when free
    clock,                 \* system_clock::now()
    open,                  \* Connection::is_open() of each connection
    net,                   \* transport of each connection: up, eof, reset
    wire,                  \* frames written to each connection's socket
    pc,                    \* position of each connection's worker thread
    loc,                   \* locals of each connection's worker thread
    client,                \* the client on each connection
    entropy,               \* the random bytes drawn for each connection
    quota,                 \* MESSAGE frames each client may still send
    faults,                \* transport faults still to come
    running_,              \* Server::running_
    reading,               \* workers blocked in receive_packet when stop() ran
    mutex_,                \* owner of ConnectionManager::mutex_, 0 when free
    call,                  \* the ConnectionManager call each thread is in
    calls,                 \* add, remove and username_exists: calls and returns
    msg,                   \* the message handed to Protocol::encode
    packet,                \* the packet Protocol::encode returned
    obj,                   \* the object Protocol::decode returned
    received,              \* what a frame reader did with a header
    messages_,             \* Client::messages_
    srp_client_,           \* Client::srp_client_, the SRPClient object
    arrived,               \* frames the client's receive loop has handled
    file,                  \* users.db
    aes                    \* a call of AESEngine::encrypt and one of decrypt

serverVars == << movedFromKeeps, alive, users_, sessions_, connections_,
                 user_id_to_username_, user_keys_, message_history_, msgLock,
                 clock, open, net, wire, pc, loc, client, entropy, quota, faults >>
stopVars == << running_, reading >>
registryVars == << mutex_, call, calls >>
codecVars == << msg, packet, obj, received >>
unitVars == << messages_, srp_client_, arrived, file, aes >>

vars == << serverVars, stopVars, registryVars, codecVars, unitVars >>

NoChallenge == [user_id |-> "", B |-> << >>, salt |-> << >>]
NoVerify == [H_AMK |-> << >>, session_key |-> bytes_to_base64(NoKey)]
NoUser == [username |-> "", user_id |-> ""]
NoCredentials == [username |-> "", salt |-> << >>, verifier |-> << >>]

Locals0 ==
    [username |-> "",            \* handle_srp_authentication: username
     challenge |-> NoChallenge,  \* handle_srp_authentication: challenge
     issued |-> "",              \* init_authentication: session.user_id
     M |-> << >>,                \* handle_srp_authentication: M
     verify |-> NoVerify,        \* handle_srp_authentication: verify
     user_id |-> "",             \* handle_srp_authentication / handle_client: user_id
     session_key |-> NoKey,      \* handle_srp_authentication: session_key
     users |-> {},               \* snapshot returned by get_active_users
     history |-> << >>,          \* copy of message_history_ put into INIT
     cl_username |-> "",         \* handle_client: username
     envelope |-> Garbage,       \* handle_client: encrypted
     key |-> NoKey,              \* handle_client / handle_message: key
     text |-> << >>,             \* handle_message: text
     timestamp |-> 0,            \* handle_message: timestamp_ms
     todo |-> {},                \* handle_message: users still to be served
     cur |-> NoUser,             \* handle_message: user
     reg |-> NoCredentials,      \* handle_srp_register: creds
     hd_username |-> ""]         \* handle_disconnect: username

\* the history that earlier connections left behind
PastHistory(n) ==
    [i \in 1..n |-> [username |-> "bob", text |-> << 0, i >>, timestamp |-> i]]

\* no call into the ConnectionManager is under way
NoCall ==
    [op |-> "none", body |-> "none", at |-> "idle", then |-> "return",
     user_id |-> "", username |-> "", users |-> {}, todo |-> {}, log |-> << >>,
     result |-> FALSE, left |-> 0]

RegistryIdle ==
    /\ mutex_ = 0
    /\ call = [c \in Conns |-> NoCall]
    /\ calls = << >>

\* nothing has been handed to the frame codec
CodecIdle ==
    /\ msg = [T |-> "none"]
    /\ packet = << >>
    /\ obj = [T |-> "none"]
    /\ received = [by |-> "none"]

\* the client, the credential file and the cipher are not in use
NoSRPClient ==
    [a |-> 0, A |-> 0, M |-> << >>, K |-> << >>, authenticated |-> FALSE,
     returned |-> [by |-> "none", threw |-> FALSE, value |-> << >>]]

UnitIdle ==
    /\ messages_ = << >>
    /\ srp_client_ = NoSRPClient
    /\ arrived = 0
    /\ file = [exists |-> FALSE, text |-> << >>, loaded |-> "no"]
    /\ aes = [op |-> "none"]

\* Server::run has set running_
Running == running_ = TRUE /\ reading = {}

ServerInit(scenarios, secrets, budget, failures, past) ==
    /\ movedFromKeeps \in BOOLEAN
    /\ alive = TRUE
    /\ users_ = StoredUsers
    /\ sessions_ = EmptyMap
    /\ connections_ = EmptyMap
    /\ user_id_to_username_ = EmptyMap
    /\ user_keys_ = EmptyMap
    /\ message_history_ = PastHistory(past)
    /\ msgLock = 0
    /\ clock = past + 1
    /\ client \in scenarios
    /\ entropy \in Entropy(secrets)
    /\ open = [c \in Conns |-> TRUE]
    /\ net = [c \in Conns |-> "up"]
    /\ wire = [c \in Conns |-> << >>]
    /\ pc = [c \in Conns |-> "hs_recv"]
    /\ loc = [c \in Conns |-> Locals0]
    /\ quota = budget
    /\ faults = failures

TypeInit(scenarios, secrets, budget, failures, past) ==
    /\ ServerInit(scenarios, secrets, budget, failures, past)
    /\ Running
    /\ RegistryIdle
    /\ CodecIdle
    /\ UnitIdle

Init ==
    TypeInit(Scenarios, {4}, [c \in Conns |-> IF c = 1 THEN MaxMsgs ELSE 0],
             MaxFaults, 0)

(************************* sockets ******************************************)
\* boost::asio::write succeeds: the socket is open and the peer has not reset
SendOk(c) == open[c] /\ net[c] # "reset"
\* boost::asio::read succeeds
RecvOk(c) == open[c] /\ net[c] = "up"

Written(w, c, frame) == [w EXCEPT ![c] = Append(@, frame)]

HeldByRegistry(c) == \E u \in DOMAIN connections_ : connections_[u] = c

\* the worker's shared_ptr<Connection> goes away with the thread; the socket
\* is destroyed unless the registry still holds the connection
Released(c) == [open EXCEPT ![c] = HeldByRegistry(c) /\ @]

ErrorMsg(c, text) == [type |-> "ERROR", error_msg |-> text, by |-> c]

LastType(c) == IF Len(wire[c]) = 0 THEN "NONE" ELSE wire[c][Len(wire[c])].type
LastFrame(c) == wire[c][Len(wire[c])]

(************************* SRPClient ****************************************)
\* SRPClient::generate_A
generate_A(a) == to_bytes(ModExp(g, a, N))

\* SRPClient::process_challenge: the proof M and the key K
process_challenge(username, password, a, B, salt) ==
    LET A_ == ModExp(g, a, N)
        B_ == BigNum(B)
        u == calculate_u(A_, B_)
        x == calculate_x(salt, username, password)
        S == calculate_S_client(B_, calculate_k, x, a, u)
        K_ == calculate_K(S)
    IN [K |-> K_, M |-> calculate_M(username, salt, A_, B_, K_)]

\* SRPClient::verify_server
verify_server(a, M_, K_, H_AMK) ==
    H_AMK = calculate_H_AMK(ModExp(g, a, N), M_, K_)

\* SRPClient::register_user, with the salt the client drew
register_user_client(username, password, salt) ==
    Credentials(username, password, salt)

\* the A a client puts into SRP_INIT
ClientA(c) ==
    IF client[c].kind = "honest" THEN generate_A(client[c].a)
    ELSE IF client[c].A = 0 THEN << 0 >>
    ELSE to_bytes(client[c].A)

\* the proof a client puts into SRP_RESPONSE after the challenge (B, salt)
ClientProof(c, B, salt) ==
    CASE client[c].kind = "honest" ->
            process_challenge(client[c].username, client[c].password,
                              client[c].a, B, salt).M
      [] client[c].kind = "zeroA" ->
            calculate_M(client[c].username, salt, BigNum(ClientA(c)),
                        BigNum(B), calculate_K(0))
      [] client[c].kind = "forge" ->
            calculate_M("", << >>, 0, 0, calculate_K(1))

(************************* SRPServer ****************************************)
NoSession ==
    [user_id |-> "", A |-> << >>, b |-> << >>, B |-> << >>, salt |-> << >>,
     verifier |-> << >>, K |-> << >>, authenticated |-> FALSE]

\* what is left in session.user_id after std::move(session)
MovedFrom(user_id) == IF movedFromKeeps THEN user_id ELSE ""

\* SRPServer::init_authentication for a known user: the session table and the
\* challenge it returns, for the drawn user_id and secret b
init_authentication(username, A, user_id, b) ==
    LET creds == users_[username]
        session == [user_id |-> user_id, A |-> A, b |-> to_bytes(b),
                    B |-> to_bytes(calculate_B(calculate_k, BigNum(creds.verifier), b)),
                    salt |-> creds.salt, verifier |-> creds.verifier,
                    K |-> << >>, authenticated |-> FALSE]
        stored == Put(sessions_, user_id, session)
        left == MovedFrom(user_id)
        touched == IF left \in DOMAIN stored THEN stored
                   ELSE Put(stored, left, NoSession)
    IN [sessions |-> touched,
        issued |-> user_id,
        challenge |-> [user_id |-> left, B |-> touched[left].B, salt |-> creds.salt]]

\* the username verify_authentication finds for a salt: the first entry of the
\* unordered_map with that salt, "" when there is none
UsernamesOfSalt(salt) ==
    LET found == {un \in DOMAIN users_ : users_[un].salt = salt}
    IN IF found = {} THEN {""} ELSE found

\* verify_authentication without the comparison of M with expected_M
verify_authentication_unchecked(session, username, M) ==
    LET A == BigNum(session.A)
        K == calculate_K(calculate_S_server(A, BigNum(session.verifier),
                         calculate_u(A, BigNum(session.B)), BigNum(session.b)))
    IN [ok |-> TRUE, K |-> K, H_AMK |-> calculate_H_AMK(A, M, K)]

\* SRPServer::verify_authentication on a stored session: K, the expected M and
\* H_AMK
verify_authentication(session, username, M) ==
    LET A == BigNum(session.A)
        B == BigNum(session.B)
        b == BigNum(session.b)
        v == BigNum(session.verifier)
        u == calculate_u(A, B)
        S == calculate_S_server(A, v, u, b)
        K == calculate_K(S)
        expected_M == calculate_M(username, session.salt, A, B, K)
    IN [ok |-> M = expected_M, K |-> K, H_AMK |-> calculate_H_AMK(A, M, K)]

(************************* ConnectionManager ********************************)
username_exists(username) ==
    \E u \in DOMAIN user_id_to_username_ : user_id_to_username_[u] = username

get_username_by_user_id(user_id) ==
    IF user_id \in DOMAIN user_id_to_username_
    THEN user_id_to_username_[user_id] ELSE ""

get_active_users ==
    {[username |-> user_id_to_username_[u], user_id |-> u] :
        u \in DOMAIN user_id_to_username_}

\* ConnectionManager::broadcast: the connections the packet is written to
BroadcastTargets(exclude_user) ==
    {connections_[u] : u \in {w \in DOMAIN connections_ :
        w # exclude_user /\ open[connections_[w]] /\ SendOk(connections_[w])}}

broadcast(frame, exclude_user) ==
    [d \in Conns |-> IF d \in BroadcastTargets(exclude_user)
                     THEN Append(wire[d], frame) ELSE wire[d]]

\* ConnectionManager::send_to
send_to(user_id, frame) ==
    IF user_id \in DOMAIN connections_ /\ open[connections_[user_id]]
       /\ SendOk(connections_[user_id])
    THEN Written(wire, connections_[user_id], frame)
    ELSE wire

(************************* handle_srp_authentication ************************)
\* a send that is the last thing the handshake does before "return nullopt":
\* when the write throws, the catch block writes again, the second exception
\* leaves the thread function and std::terminate ends the process
HsEnd(c, text) ==
    IF SendOk(c)
    THEN /\ wire' = Written(wire, c, ErrorMsg(c, text))
         /\ pc' = [pc EXCEPT ![c] = "done"]
         /\ open' = Released(c)
         /\ alive' = alive
    ELSE /\ alive' = FALSE
         /\ UNCHANGED << wire, pc, open >>

\* a send in the middle of the handshake: on success the worker goes on at
\* `next`, on failure the catch block runs
HsSend(c, frame, next) ==
    IF SendOk(c)
    THEN /\ wire' = Written(wire, c, frame)
         /\ pc' = [pc EXCEPT ![c] = next]
         /\ UNCHANGED << open, alive >>
    ELSE /\ alive' = FALSE
         /\ UNCHANGED << wire, pc, open >>

\* receive_packet throws "Connection closed" (lines 51 and 93)
HsRecvFails(c) ==
    /\ alive
    /\ pc[c] \in {"hs_recv", "hs_recv_resp"}
    /\ ~RecvOk(c)
    /\ HsEnd(c, "Authentication error")
    /\ UNCHANGED << codecVars, registryVars, unitVars, stopVars,
                    movedFromKeeps, users_, sessions_, connections_,
                    user_id_to_username_, user_keys_, message_history_,
                    msgLock, clock, net, loc, client, entropy, quota, faults >>

\* a frame that is not SRP_INIT / not SRP_RESPONSE, an SRP_INIT with an empty
\* field, or an SRP_RESPONSE that names another user_id
HsRecvJunk(c) ==
    /\ alive
    /\ pc[c] \in {"hs_recv", "hs_recv_resp"}
    /\ RecvOk(c)
    /\ faults > 0
    /\ faults' = faults - 1
    /\ \E text \in IF pc[c] = "hs_recv"
                   THEN {"Expected SRP_INIT", "Invalid SRP_INIT"}
                   ELSE {"Expected SRP_RESPONSE", "Invalid user_id"} :
          HsEnd(c, text)
    /\ UNCHANGED << codecVars, registryVars, unitVars, stopVars,
                    movedFromKeeps, users_, sessions_, connections_,
                    user_id_to_username_, user_keys_, message_history_,
                    msgLock, clock, net, loc, client, entropy, quota >>

\* SRP_INIT{username, A}: init_authentication, then SRP_CHALLENGE or
\* SRP_USER_NOT_FOUND
HsRecvInit(c) ==
    /\ alive
    /\ pc[c] = "hs_recv"
    /\ RecvOk(c)
    /\ LastType(c) \in {"NONE", "SRP_REGISTER_ACK"}
    /\ LET init_username == client[c].username
           A == base64_to_bytes(bytes_to_base64(ClientA(c)))
       IN IF init_username \notin DOMAIN users_
          THEN /\ HsSend(c, [type |-> "SRP_USER_NOT_FOUND", by |-> c], "hs_recv")
               /\ UNCHANGED << sessions_, loc >>
          ELSE \E user_id \in IdsFor(c) :
                 LET r == init_authentication(init_username, A, user_id, entropy[c].b)
                 IN /\ sessions_' = r.sessions
                    /\ loc' = [loc EXCEPT ![c].challenge = r.challenge,
                                          ![c].issued = r.issued,
                                          ![c].username = init_username]
                    /\ HsSend(c, [type |-> "SRP_CHALLENGE",
                                  user_id |-> r.challenge.user_id,
                                  B_b64 |-> bytes_to_base64(r.challenge.B),
                                  salt_b64 |-> bytes_to_base64(r.challenge.salt),
                                  by |-> c],
                              "hs_recv_resp")
    /\ UNCHANGED << codecVars, registryVars, unitVars, stopVars,
                    movedFromKeeps, users_, connections_, user_id_to_username_,
                    user_keys_, message_history_, msgLock, clock, net, client, entropy,
                    quota, faults >>

\* SRP_REGISTER: handle_srp_register up to the first user_exists
HsRecvRegister(c) ==
    /\ alive
    /\ pc[c] = "hs_recv"
    /\ RecvOk(c)
    /\ LastType(c) = "SRP_USER_NOT_FOUND"
    /\ LET sent == register_user_client(client[c].username, client[c].password,
                                        client[c].salt)
           creds == [username |-> sent.username,
                     salt |-> base64_to_bytes(bytes_to_base64(sent.salt)),
                     verifier |-> base64_to_bytes(bytes_to_base64(sent.verifier))]
       IN IF creds.username \in DOMAIN users_
          THEN /\ HsSend(c, ErrorMsg(c, "Username already exists"), "hs_recv")
               /\ loc' = loc
          ELSE /\ loc' = [loc EXCEPT ![c].reg = creds]
               /\ pc' = [pc EXCEPT ![c] = "reg_register"]
               /\ UNCHANGED << wire, open, alive >>
    /\ UNCHANGED << codecVars, registryVars, unitVars, stopVars,
                    movedFromKeeps, users_, sessions_, connections_,
                    user_id_to_username_, user_keys_, message_history_,
                    msgLock, clock, net, client, entropy, quota, faults >>

\* SRPServer::register_user: the user_exists call
RegisterCheck(c) ==
    /\ alive
    /\ pc[c] = "reg_register"
    /\ IF loc[c].reg.username \in DOMAIN users_
       THEN HsSend(c, ErrorMsg(c, "Registration failed"), "hs_recv")
       ELSE /\ pc' = [pc EXCEPT ![c] = "reg_insert"]
            /\ UNCHANGED << wire, open, alive >>
    /\ UNCHANGED << codecVars, registryVars, unitVars, stopVars,
                    movedFromKeeps, users_, sessions_, connections_,
                    user_id_to_username_, user_keys_, message_history_,
                    msgLock, clock, net, loc, client, entropy, quota, faults >>

\* register_user that answers SRP_REGISTER_ACK without storing the credential
RegisterInsertLost(c) ==
    /\ alive
    /\ pc[c] = "reg_insert"
    /\ users_' = users_
    /\ HsSend(c, [type |-> "SRP_REGISTER_ACK", by |-> c], "hs_recv")
    /\ UNCHANGED << codecVars, registryVars, unitVars, stopVars,
                    movedFromKeeps, sessions_, connections_,
                    user_id_to_username_, user_keys_, message_history_,
                    msgLock, clock, net, loc, client, entropy, quota, faults >>

\* SRPServer::register_user: the insertion, then SRP_REGISTER_ACK and
\* save_users
RegisterInsert(c) ==
    /\ alive
    /\ pc[c] = "reg_insert"
    /\ users_' = Put(users_, loc[c].reg.username, loc[c].reg)
    /\ HsSend(c, [type |-> "SRP_REGISTER_ACK", by |-> c], "hs_recv")
    /\ UNCHANGED << codecVars, registryVars, unitVars, stopVars,
                    movedFromKeeps, sessions_, connections_,
                    user_id_to_username_, user_keys_, message_history_,
                    msgLock, clock, net, loc, client, entropy, quota, faults >>

\* SRP_RESPONSE{user_id, M} of the client that answers the challenge, then
\* the username_exists test
HsRecvResponse(c) ==
    /\ alive
    /\ pc[c] = "hs_recv_resp"
    /\ RecvOk(c)
    /\ LET f == LastFrame(c)
           response_user_id == f.user_id
           M == base64_to_bytes(bytes_to_base64(
                    ClientProof(c, base64_to_bytes(f.B_b64),
                                base64_to_bytes(f.salt_b64))))
       IN IF response_user_id # loc[c].challenge.user_id
          THEN HsEnd(c, "Invalid user_id") /\ loc' = loc
          ELSE IF username_exists(loc[c].username)
          THEN HsEnd(c, "User already logged in") /\ loc' = loc
          ELSE /\ loc' = [loc EXCEPT ![c].M = M, ![c].user_id = response_user_id]
               /\ pc' = [pc EXCEPT ![c] = "hs_verify"]
               /\ UNCHANGED << wire, open, alive >>
    /\ UNCHANGED << codecVars, registryVars, unitVars, stopVars,
                    movedFromKeeps, users_, sessions_, connections_,
                    user_id_to_username_, user_keys_, message_history_,
                    msgLock, clock, net, client, entropy, quota, faults >>

\* verify_authentication (line 115); on success SRP_SUCCESS is sent and the
\* session key decoded (random_bytes(32) always has KEY_SIZE bytes)
HsVerify(c) ==
    /\ alive
    /\ pc[c] = "hs_verify"
    /\ IF loc[c].user_id \notin DOMAIN sessions_
       THEN HsEnd(c, "Authentication failed") /\ UNCHANGED << sessions_, loc >>
       ELSE \E username \in UsernamesOfSalt(sessions_[loc[c].user_id].salt) :
              LET session == sessions_[loc[c].user_id]
                  key == entropy[c].key
                  r == verify_authentication(session, username, loc[c].M)
                  verify == [H_AMK |-> r.H_AMK,
                             session_key |-> bytes_to_base64(KeyBytes(key))]
              IN IF ~r.ok
                 THEN HsEnd(c, "Authentication failed")
                      /\ UNCHANGED << sessions_, loc >>
                 ELSE /\ sessions_' = Put(sessions_, loc[c].user_id,
                              [session EXCEPT !.K = r.K, !.authenticated = TRUE])
                      /\ loc' = [loc EXCEPT
                              ![c].verify = verify,
                              ![c].session_key = base64_to_bytes(verify.session_key)]
                      /\ HsSend(c, [type |-> "SRP_SUCCESS",
                                    H_AMK_b64 |-> bytes_to_base64(verify.H_AMK),
                                    session_key_b64 |-> bytes_to_base64(verify.session_key),
                                    by |-> c],
                                "hs_add")
    /\ UNCHANGED << codecVars, registryVars, unitVars, stopVars,
                    movedFromKeeps, users_, connections_, user_id_to_username_,
                    user_keys_, message_history_, msgLock, clock, net, client, entropy,
                    quota, faults >>

\* the registration moved in front of verify_authentication
HsAddUnverified(c) ==
    /\ alive
    /\ pc[c] \in {"hs_verify", "hs_add"}
    /\ connections_' = Put(connections_, loc[c].user_id, c)
    /\ user_id_to_username_' = Put(user_id_to_username_, loc[c].user_id, loc[c].username)
    /\ pc' = [pc EXCEPT ![c] = "hs_key"]
    /\ UNCHANGED << codecVars, registryVars, unitVars, stopVars,
                    movedFromKeeps, alive, users_, sessions_, user_keys_,
                    message_history_, msgLock, clock, open, net, wire, loc,
                    client, entropy, quota, faults >>

\* connection_manager_->add (line 144)
HsAdd(c) ==
    /\ alive
    /\ pc[c] = "hs_add"
    /\ connections_' = Put(connections_, loc[c].user_id, c)
    /\ user_id_to_username_' = Put(user_id_to_username_, loc[c].user_id, loc[c].username)
    /\ pc' = [pc EXCEPT ![c] = "hs_key"]
    /\ UNCHANGED << codecVars, registryVars, unitVars, stopVars,
                    movedFromKeeps, alive, users_, sessions_, user_keys_,
                    message_history_, msgLock, clock, open, net, wire, loc,
                    client, entropy, quota, faults >>

\* user_keys_[user_id] = session_key (lines 145-148)
HsKey(c) ==
    /\ alive
    /\ pc[c] = "hs_key"
    /\ user_keys_' = Put(user_keys_, loc[c].user_id, loc[c].session_key)
    /\ pc' = [pc EXCEPT ![c] = "hs_init"]
    /\ UNCHANGED << codecVars, registryVars, unitVars, stopVars,
                    movedFromKeeps, alive, users_, sessions_, connections_,
                    user_id_to_username_, message_history_, msgLock, clock,
                    open, net, wire, loc, client, entropy, quota, faults >>

\* message_mutex_ taken, get_active_users (lines 153-154)
HsInitUsers(c) ==
    /\ alive
    /\ pc[c] = "hs_init"
    /\ msgLock = 0
    /\ msgLock' = c
    /\ loc' = [loc EXCEPT ![c].users = get_active_users]
    /\ pc' = [pc EXCEPT ![c] = "hs_init_send"]
    /\ UNCHANGED << codecVars, registryVars, unitVars, stopVars,
                    movedFromKeeps, alive, users_, sessions_, connections_,
                    user_id_to_username_, user_keys_, message_history_, clock,
                    open, net, wire, client, entropy, quota, faults >>

\* INIT{message_history_, users} written, message_mutex_ released (155-158)
HsInitSend(c) ==
    /\ alive
    /\ pc[c] = "hs_init_send"
    /\ msgLock' = 0
    /\ HsSend(c, [type |-> "INIT", messages |-> message_history_,
                  users |-> loc[c].users, by |-> c],
              "hs_joined")
    /\ UNCHANGED << codecVars, registryVars, unitVars, stopVars,
                    movedFromKeeps, users_, sessions_, connections_,
                    user_id_to_username_, user_keys_, message_history_, clock,
                    net, loc, client, entropy, quota, faults >>

\* broadcast of USER_JOINED excluding the new user (lines 160-164)
HsJoined(c) ==
    /\ alive
    /\ pc[c] = "hs_joined"
    /\ wire' = broadcast([type |-> "USER_JOINED", username |-> loc[c].username,
                          user_id |-> loc[c].user_id, by |-> c],
                         loc[c].user_id)
    /\ pc' = [pc EXCEPT ![c] = "cl_start"]
    /\ UNCHANGED << codecVars, registryVars, unitVars, stopVars,
                    movedFromKeeps, alive, users_, sessions_, connections_,
                    user_id_to_username_, user_keys_, message_history_,
                    msgLock, clock, open, net, loc, client, entropy, quota, faults >>

(************************* handle_client ************************************)
\* get_username_by_user_id (line 257)
ClStart(c) ==
    /\ alive
    /\ pc[c] = "cl_start"
    /\ loc' = [loc EXCEPT ![c].cl_username = get_username_by_user_id(loc[c].user_id)]
    /\ pc' = [pc EXCEPT ![c] = "cl_loop"]
    /\ UNCHANGED << codecVars, registryVars, unitVars, stopVars,
                    movedFromKeeps, alive, users_, sessions_, connections_,
                    user_id_to_username_, user_keys_, message_history_,
                    msgLock, clock, open, net, wire, client, entropy, quota, faults >>

\* the SRP_SUCCESS frame a client received
SuccessFrame(c) ==
    wire[c][CHOOSE i \in 1..Len(wire[c]) : wire[c][i].type = "SRP_SUCCESS"]

\* the session key as the client decodes it from SRP_SUCCESS
ClientKey(c) == base64_to_bytes(base64_to_bytes(SuccessFrame(c).session_key_b64))

\* the loop ends: the socket is closed, receive_packet throws, or the loop
\* test finds running_ false
ClLoopEnds(c) ==
    /\ alive
    /\ pc[c] = "cl_loop"
    /\ ~RecvOk(c) \/ (~running_ /\ c \notin reading)
    /\ pc' = [pc EXCEPT ![c] = "cl_exit"]
    /\ UNCHANGED << codecVars, registryVars, unitVars, stopVars,
                    movedFromKeeps, alive, users_, sessions_, connections_,
                    user_id_to_username_, user_keys_, message_history_,
                    msgLock, clock, open, net, wire, loc, client, entropy, quota, faults >>

\* Client::send_message: the typed text goes into TextMsg as it is; what the
\* server's base64_to_bytes makes of it is an envelope of no key
send_message(text) == [sealed |-> 0, text |-> text]

\* Client::handle_broadcast: the entry stored in messages_ and shown
handle_broadcast(frame) ==
    [username |-> frame.username, text |-> frame.ciphertext_b64,
     timestamp |-> frame.timestamp_ms]

\* a MESSAGE frame: the envelope a client seals under its session key, or the
\* frame of Client::send_message
ClRecvMessage(c) ==
    /\ alive
    /\ pc[c] = "cl_loop"
    /\ RecvOk(c)
    /\ running_ \/ c \in reading
    /\ reading' = reading \ {c}
    /\ quota[c] > 0
    /\ quota' = [quota EXCEPT ![c] = @ - 1]
    /\ \E encrypted \in {encrypt_string(<< c, quota[c] >>, ClientKey(c)),
                          send_message(<< c, quota[c] >>)} :
          LET ciphertext_b64 == bytes_to_base64(encrypted)
          IN loc' = [loc EXCEPT ![c].envelope = base64_to_bytes(ciphertext_b64)]
    /\ pc' = [pc EXCEPT ![c] = "cl_key"]
    /\ UNCHANGED << codecVars, registryVars, unitVars, running_,
                    movedFromKeeps, alive, users_, sessions_, connections_,
                    user_id_to_username_, user_keys_, message_history_,
                    msgLock, clock, open, net, wire, client, entropy, faults >>

\* a DISCONNECT frame: conn->close(), and the loop test fails
ClRecvDisconnect(c) ==
    /\ alive
    /\ pc[c] = "cl_loop"
    /\ RecvOk(c)
    /\ running_ \/ c \in reading
    /\ reading' = reading \ {c}
    /\ open' = [open EXCEPT ![c] = FALSE]
    /\ pc' = [pc EXCEPT ![c] = "cl_exit"]
    /\ UNCHANGED << codecVars, registryVars, unitVars, running_,
                    movedFromKeeps, alive, users_, sessions_, connections_,
                    user_id_to_username_, user_keys_, message_history_,
                    msgLock, clock, net, wire, loc, client, entropy, quota, faults >>

\* the session key looked up, the ciphertext decrypted, `now` read
\* (lines 265-280 and 306-311)
ClDecrypt(c) ==
    /\ alive
    /\ pc[c] = "cl_key"
    /\ LET key == IF loc[c].user_id \in DOMAIN user_keys_
                  THEN user_keys_[loc[c].user_id] ELSE NoKey
       IN IF key = NoKey
          THEN /\ IF SendOk(c)
                  THEN /\ wire' = Written(wire, c, ErrorMsg(c, "Missing session key"))
                       /\ pc' = [pc EXCEPT ![c] = "cl_loop"]
                  ELSE /\ wire' = wire
                       /\ pc' = [pc EXCEPT ![c] = "cl_exit"]
               /\ UNCHANGED << loc, clock >>
          ELSE IF ~DecryptOk(loc[c].envelope, key)
          THEN /\ pc' = [pc EXCEPT ![c] = "cl_exit"]
               /\ UNCHANGED << wire, loc, clock >>
          ELSE IF loc[c].cl_username = ""
          THEN /\ pc' = [pc EXCEPT ![c] = "cl_loop"]
               /\ UNCHANGED << wire, loc, clock >>
          ELSE /\ loc' = [loc EXCEPT ![c].key = key,
                                     ![c].text = decrypt_string(loc[c].envelope, key),
                                     ![c].timestamp = clock]
               /\ clock' = clock + 1
               /\ pc' = [pc EXCEPT ![c] = "hm_store"]
               /\ wire' = wire
    /\ UNCHANGED << codecVars, registryVars, unitVars, stopVars,
                    movedFromKeeps, alive, users_, sessions_, connections_,
                    user_id_to_username_, user_keys_, message_history_,
                    msgLock, open, net, client, entropy, quota, faults >>

(************************* handle_message ***********************************)
\* the history append without the trim
HmStoreUntrimmed(c) ==
    /\ alive
    /\ pc[c] = "hm_store"
    /\ msgLock = 0
    /\ message_history_' = Append(message_history_,
                                  [username |-> loc[c].cl_username,
                                   text |-> loc[c].text,
                                   timestamp |-> loc[c].timestamp])
    /\ pc' = [pc EXCEPT ![c] = "hm_users"]
    /\ UNCHANGED << codecVars, registryVars, unitVars, stopVars,
                    movedFromKeeps, alive, users_, sessions_, connections_,
                    user_id_to_username_, user_keys_, msgLock, clock, open,
                    net, wire, loc, client, entropy, quota, faults >>

\* the store of handle_message putting the new entry in front
HmStorePrepending(c) ==
    /\ alive
    /\ pc[c] = "hm_store"
    /\ msgLock = 0
    /\ LET stored == << [username |-> loc[c].cl_username,
                         text |-> loc[c].text,
                         timestamp |-> loc[c].timestamp] >> \o message_history_
       IN message_history_' = IF Len(stored) > kMaxMessageHistory
                              THEN SubSeq(stored, 1, kMaxMessageHistory) ELSE stored
    /\ pc' = [pc EXCEPT ![c] = "hm_users"]
    /\ UNCHANGED << codecVars, registryVars, unitVars, stopVars,
                    movedFromKeeps, alive, users_, sessions_, connections_,
                    user_id_to_username_, user_keys_, msgLock, clock, open,
                    net, wire, loc, client, entropy, quota, faults >>

\* the history append and trim under message_mutex_ (lines 320-327)
HmStore(c) ==
    /\ alive
    /\ pc[c] = "hm_store"
    /\ msgLock = 0
    /\ LET stored == Append(message_history_,
                            [username |-> loc[c].cl_username,
                             text |-> loc[c].text,
                             timestamp |-> loc[c].timestamp])
       IN message_history_' = IF Len(stored) > kMaxMessageHistory
                              THEN Tail(stored) ELSE stored
    /\ pc' = [pc EXCEPT ![c] = "hm_users"]
    /\ UNCHANGED << codecVars, registryVars, unitVars, stopVars,
                    movedFromKeeps, alive, users_, sessions_, connections_,
                    user_id_to_username_, user_keys_, msgLock, clock, open,
                    net, wire, loc, client, entropy, quota, faults >>

\* get_active_users (line 330)
HmUsers(c) ==
    /\ alive
    /\ pc[c] = "hm_users"
    /\ loc' = [loc EXCEPT ![c].users = get_active_users,
                          ![c].todo = get_active_users]
    /\ pc' = [pc EXCEPT ![c] = IF get_active_users = {} THEN "cl_loop" ELSE "hm_each"]
    /\ UNCHANGED << codecVars, registryVars, unitVars, stopVars,
                    movedFromKeeps, alive, users_, sessions_, connections_,
                    user_id_to_username_, user_keys_, message_history_,
                    msgLock, clock, open, net, wire, client, entropy, quota, faults >>

\* the next user of the loop and its key (lines 331-339); a user without key
\* is skipped
HmKey(c) ==
    /\ alive
    /\ pc[c] = "hm_each"
    /\ \E user \in loc[c].todo :
          LET key == IF user.user_id \in DOMAIN user_keys_
                     THEN user_keys_[user.user_id] ELSE NoKey
              rest == loc[c].todo \ {user}
          IN IF key = NoKey
             THEN /\ loc' = [loc EXCEPT ![c].todo = rest]
                  /\ pc' = [pc EXCEPT ![c] = IF rest = {} THEN "cl_loop" ELSE "hm_each"]
             ELSE /\ loc' = [loc EXCEPT ![c].cur = user, ![c].key = key]
                  /\ pc' = [pc EXCEPT ![c] = "hm_send"]
    /\ UNCHANGED << codecVars, registryVars, unitVars, stopVars,
                    movedFromKeeps, alive, users_, sessions_, connections_,
                    user_id_to_username_, user_keys_, message_history_,
                    msgLock, clock, open, net, wire, client, entropy, quota, faults >>

\* encrypt_string and send_to (lines 341-357)
HmSend(c) ==
    /\ alive
    /\ pc[c] = "hm_send"
    /\ LET encrypted == encrypt_string(loc[c].text, loc[c].key)
           rest == loc[c].todo \ {loc[c].cur}
       IN /\ wire' = send_to(loc[c].cur.user_id,
                             [type |-> "BROADCAST",
                              username |-> loc[c].cl_username,
                              ciphertext_b64 |-> bytes_to_base64(encrypted),
                              timestamp_ms |-> loc[c].timestamp,
                              by |-> c])
          /\ loc' = [loc EXCEPT ![c].todo = rest]
          /\ pc' = [pc EXCEPT ![c] = IF rest = {} THEN "cl_loop" ELSE "hm_each"]
    /\ UNCHANGED << codecVars, registryVars, unitVars, stopVars,
                    movedFromKeeps, alive, users_, sessions_, connections_,
                    user_id_to_username_, user_keys_, message_history_,
                    msgLock, clock, open, net, client, entropy, quota, faults >>

(************************* handle_disconnect ********************************)
\* after the loop (lines 296-301): handle_disconnect starts with the username
\* lookup; with an empty user_id only conn->close() runs
ClExit(c) ==
    /\ alive
    /\ pc[c] = "cl_exit"
    /\ IF loc[c].user_id # ""
       THEN /\ loc' = [loc EXCEPT ![c].hd_username =
                                      get_username_by_user_id(loc[c].user_id)]
            /\ pc' = [pc EXCEPT ![c] = "hd_erase"]
            /\ open' = open
       ELSE /\ open' = [open EXCEPT ![c] = FALSE]
            /\ pc' = [pc EXCEPT ![c] = "done"]
            /\ loc' = loc
    /\ UNCHANGED << codecVars, registryVars, unitVars, stopVars,
                    movedFromKeeps, alive, users_, sessions_, connections_,
                    user_id_to_username_, user_keys_, message_history_,
                    msgLock, clock, net, wire, client, entropy, quota, faults >>

\* user_keys_.erase (lines 365-368)
HdErase(c) ==
    /\ alive
    /\ pc[c] = "hd_erase"
    /\ user_keys_' = Del(user_keys_, loc[c].user_id)
    /\ pc' = [pc EXCEPT ![c] = "hd_remove"]
    /\ UNCHANGED << codecVars, registryVars, unitVars, stopVars,
                    movedFromKeeps, alive, users_, sessions_, connections_,
                    user_id_to_username_, message_history_, msgLock, clock,
                    open, net, wire, loc, client, entropy, quota, faults >>

\* ConnectionManager::remove: the row's connection is closed and erased
HdRemove(c) ==
    /\ alive
    /\ pc[c] = "hd_remove"
    /\ user_id_to_username_' = Del(user_id_to_username_, loc[c].user_id)
    /\ connections_' = Del(connections_, loc[c].user_id)
    /\ open' = IF loc[c].user_id \in DOMAIN connections_
               THEN [open EXCEPT ![connections_[loc[c].user_id]] = FALSE]
               ELSE open
    /\ pc' = [pc EXCEPT ![c] = "hd_left"]
    /\ UNCHANGED << codecVars, registryVars, unitVars, stopVars,
                    movedFromKeeps, alive, users_, sessions_, user_keys_,
                    message_history_, msgLock, clock, net, wire, loc, client, entropy,
                    quota, faults >>

\* broadcast of USER_LEFT when the username was found, then conn->close()
HdLeft(c) ==
    /\ alive
    /\ pc[c] = "hd_left"
    /\ wire' = IF loc[c].hd_username # ""
               THEN broadcast([type |-> "USER_LEFT",
                               username |-> loc[c].hd_username, by |-> c], "")
               ELSE wire
    /\ open' = [open EXCEPT ![c] = FALSE]
    /\ pc' = [pc EXCEPT ![c] = "done"]
    /\ UNCHANGED << codecVars, registryVars, unitVars, stopVars,
                    movedFromKeeps, alive, users_, sessions_, connections_,
                    user_id_to_username_, user_keys_, message_history_,
                    msgLock, clock, net, loc, client, entropy, quota, faults >>

(************************* the peers ****************************************)
\* the client closes its socket: the server reads end of file.  A client
\* that got an ERROR frame gives up; any other close is a fault.
PeerClose(c) ==
    /\ alive
    /\ net[c] = "up"
    /\ pc[c] # "done"
    /\ LastType(c) = "ERROR" \/ faults > 0
    /\ faults' = IF LastType(c) = "ERROR" THEN faults ELSE faults - 1
    /\ net' = [net EXCEPT ![c] = "eof"]
    /\ UNCHANGED << codecVars, registryVars, unitVars, stopVars,
                    movedFromKeeps, alive, users_, sessions_, connections_,
                    user_id_to_username_, user_keys_, message_history_,
                    msgLock, clock, open, wire, pc, loc, client, entropy, quota >>

\* the connection is reset: reads and writes fail
PeerReset(c) ==
    /\ alive
    /\ net[c] = "up"
    /\ pc[c] # "done"
    /\ faults > 0
    /\ faults' = faults - 1
    /\ net' = [net EXCEPT ![c] = "reset"]
    /\ UNCHANGED << codecVars, registryVars, unitVars, stopVars,
                    movedFromKeeps, alive, users_, sessions_, connections_,
                    user_id_to_username_, user_keys_, message_history_,
                    msgLock, clock, open, wire, pc, loc, client, entropy, quota >>

Handshake(c) ==
    \/ HsRecvFails(c)
    \/ HsRecvJunk(c)
    \/ HsRecvInit(c)
    \/ HsRecvRegister(c)
    \/ RegisterCheck(c)
    \/ RegisterInsert(c)
    \/ HsRecvResponse(c)
    \/ HsVerify(c)
    \/ HsAdd(c)
    \/ HsKey(c)
    \/ HsInitUsers(c)
    \/ HsInitSend(c)
    \/ HsJoined(c)

MessageLoop(c) ==
    \/ ClStart(c)
    \/ ClLoopEnds(c)
    \/ ClRecvMessage(c)
    \/ ClRecvDisconnect(c)
    \/ ClDecrypt(c)
    \/ HmStore(c)
    \/ HmUsers(c)
    \/ HmKey(c)
    \/ HmSend(c)
    \/ ClExit(c)
    \/ HdErase(c)
    \/ HdRemove(c)
    \/ HdLeft(c)

Next ==
    \E c \in Conns :
        \/ Handshake(c)
        \/ MessageLoop(c)
        \/ PeerClose(c)
        \/ PeerReset(c)

Spec == Init /\ [][Next]_vars

(************************* the history run **********************************)
\* earlier connections have left a history one entry short of
\* kMaxMessageHistory; two clients log in and send messages, no transport
\* fault happens
HistoryInit ==
    TypeInit({Pair(Honest("alice", "sesame", 3, << 1 >>),
                   Honest("bob", "password", 5, << 2 >>)),
              Pair(Forge("alice", 2), Forge("bob", 2))},
             {4},
             [c \in Conns |-> IF c = 1 THEN MaxOverflow ELSE MaxMsgs],
             0,
             kMaxMessageHistory - 1)

HistoryNext ==
    \E c \in Conns :
        \/ HsRecvInit(c)
        \/ HsRecvResponse(c)
        \/ HsVerify(c)
        \/ HsAdd(c)
        \/ HsKey(c)
        \/ HsInitUsers(c)
        \/ HsInitSend(c)
        \/ HsJoined(c)
        \/ MessageLoop(c)

HistorySpec == HistoryInit /\ [][HistoryNext]_vars

(************************* the shutdown run *********************************)
\* Server::stop: running_ is cleared and io_context_ is stopped; no socket is
\* touched.  A worker waiting at the head of its loop is either about to test
\* running_ or already blocked in receive_packet
Stop ==
    /\ alive
    /\ running_
    /\ running_' = FALSE
    /\ reading' \in SUBSET {c \in Conns : pc[c] = "cl_loop" /\ RecvOk(c)}
    /\ UNCHANGED << serverVars, registryVars, unitVars, codecVars >>

\* two clients log in, one sends a message, no transport fault happens, and
\* the server is stopped at some moment
StopInit ==
    TypeInit({Pair(Honest("alice", "sesame", 3, << 1 >>),
                   Honest("bob", "password", 5, << 2 >>))},
             {4},
             [c \in Conns |-> IF c = 1 THEN MaxMsgs ELSE 0],
             0,
             0)

StopNext ==
    \/ Stop
    \/ HistoryNext

StopSpec == StopInit /\ [][StopNext]_vars

(************************* the frame codec **********************************)
\* sizeof(MsgHeader): packed u16 type, u32 size
HeaderSize == 6
kMaxPayloadSize == 1024 * 1024

\* the MessageType enumeration, in declaration order from 0
MessageType(name) ==
    LET MessageTypes ==
            << "INIT", "MESSAGE", "BROADCAST", "USER_JOINED", "USER_LEFT",
               "DISCONNECT", "ERROR_MSG", "SRP_REGISTER", "SRP_REGISTER_ACK",
               "SRP_INIT", "SRP_CHALLENGE", "SRP_RESPONSE", "SRP_SUCCESS",
               "SRP_USER_NOT_FOUND" >>
    IN  (CHOOSE i \in 1..Len(MessageTypes) : MessageTypes[i] = name) - 1

\* BufferWriter::write<T>: the bytes of the value in host order, least
\* significant first (the int64 values used here are below 2^31 and not
\* negative)
U16(n) == << n % 256, (n \div 256) % 256 >>
U32(n) == << n % 256, (n \div 256) % 256, (n \div 65536) % 256, (n \div 16777216) % 256 >>
I64(n) == U32(n) \o << 0, 0, 0, 0 >>

RECURSIVE FromBytes(_)
FromBytes(bytes) ==
    IF bytes = << >> THEN 0 ELSE Head(bytes) + 256 * FromBytes(Tail(bytes))

\* BufferReader: the data, the read position, and whether a read ran past
\* the end ("Buffer underflow")
BufferReader(data) == [data |-> data, pos |-> 0, underflow |-> FALSE]

read_bytes(r, count) ==
    IF r.underflow \/ r.pos + count > Len(r.data)
    THEN [value |-> << >>, r |-> [r EXCEPT !.underflow = TRUE]]
    ELSE [value |-> SubSeq(r.data, r.pos + 1, r.pos + count),
          r |-> [r EXCEPT !.pos = @ + count]]

\* BufferReader::read<T> of a T that is width bytes wide
read(r, width) ==
    LET got == read_bytes(r, width)
    IN  [value |-> FromBytes(got.value), r |-> got.r]

\* strings travel as u32 length, then the bytes
write_string(str) == U32(Len(str)) \o str

read_string(r) ==
    LET len == read(r, 4)
    IN  read_bytes(len.r, len.value)

\* as_tuple() of every schema: the fields that are serialized, in order
as_tuple(T) ==
    LET Field(name, type) == [name |-> name, type |-> type]
    IN
    CASE T = "User" -> << Field("username", "string"), Field("user_id", "string") >>
      [] T = "Message" -> << Field("username", "string"), Field("text", "string") >>
      [] T = "InitMsg" ->
            << Field("messages", "vector<Message>"), Field("users", "vector<User>") >>
      [] T = "TextMsg" -> << Field("text", "string") >>
      [] T = "BroadcastMsg" ->
            << Field("username", "string"), Field("text", "string"),
               Field("timestamp_ms", "int64") >>
      [] T = "UserJoinedMsg" ->
            << Field("username", "string"), Field("user_id", "string") >>
      [] T = "UserLeftMsg" -> << Field("username", "string") >>
      [] T = "ErrorMsg" -> << Field("error_msg", "string") >>
      [] T = "SrpRegisterMsg" ->
            << Field("username", "string"), Field("salt_b64", "string"),
               Field("verifier_b64", "string") >>
      [] T = "SrpInitMsg" -> << Field("username", "string"), Field("A_b64", "string") >>
      [] T = "SrpChallengeMsg" ->
            << Field("user_id", "string"), Field("B_b64", "string"),
               Field("salt_b64", "string"), Field("room_salt_b64", "string") >>
      [] T = "SrpResponseMsg" -> << Field("user_id", "string"), Field("M_b64", "string") >>
      [] T = "SrpSuccessMsg" ->
            << Field("H_AMK_b64", "string"), Field("session_key_b64", "string") >>

\* "T obj;": every member default-constructed; Message has one member more
\* than its as_tuple() names, the timestamp, which starts at the epoch
DefaultObject(T) ==
    IF T = "Message"
    THEN [username |-> << >>, text |-> << >>, timestamp |-> 0]
    ELSE LET fields == {as_tuple(T)[i] : i \in 1..Len(as_tuple(T))}
         IN  [name \in {f.name : f \in fields} |->
                 IF (CHOOSE f \in fields : f.name = name).type = "int64"
                 THEN 0 ELSE << >>]

RECURSIVE serialize_object(_, _)
RECURSIVE WriteItems(_, _)
RECURSIVE WriteFields(_, _)
RECURSIVE deserialize_object(_, _)
RECURSIVE ReadItems(_, _, _, _)
RECURSIVE ReadFields(_, _, _)

\* Protocol::write_field, by the type of the field
write_field(type, v) ==
    CASE type = "string" -> write_string(v)
      [] type = "int64" -> I64(v)
      [] type = "vector<Message>" -> U32(Len(v)) \o WriteItems("Message", v)
      [] type = "vector<User>" -> U32(Len(v)) \o WriteItems("User", v)

\* the loop of write_field for vectors: each item's size, then its bytes
WriteItems(T, v) ==
    IF v = << >> THEN << >>
    ELSE LET item_data == serialize_object(T, Head(v))
         IN  U32(Len(item_data)) \o item_data \o WriteItems(T, Tail(v))

WriteFields(fields, object) ==
    IF fields = << >> THEN << >>
    ELSE write_field(Head(fields).type, object[Head(fields).name])
             \o WriteFields(Tail(fields), object)

serialize_object(T, object) == WriteFields(as_tuple(T), object)

\* Protocol::read_field, by the type of the field
read_field(type, r) ==
    CASE type = "string" -> read_string(r)
      [] type = "int64" -> read(r, 8)
      [] type = "vector<Message>" ->
            LET count == read(r, 4)
            IN  ReadItems("Message", count.r, count.value, << >>)
      [] type = "vector<User>" ->
            LET count == read(r, 4)
            IN  ReadItems("User", count.r, count.value, << >>)

\* the loop of read_field for vectors
ReadItems(T, r, left, result) ==
    IF left = 0 \/ r.underflow THEN [value |-> result, r |-> r]
    ELSE LET item_size == read(r, 4)
             item_data == read_bytes(item_size.r, item_size.value)
             item == deserialize_object(T, item_data.value)
         IN  IF item_data.r.underflow \/ item.threw
             THEN [value |-> result, r |-> [item_data.r EXCEPT !.underflow = TRUE]]
             ELSE ReadItems(T, item_data.r, left - 1, Append(result, item.value))

ReadFields(fields, object, r) ==
    IF fields = << >> \/ r.underflow THEN [value |-> object, r |-> r]
    ELSE LET got == read_field(Head(fields).type, r)
         IN  ReadFields(Tail(fields),
                        [object EXCEPT ![Head(fields).name] = got.value], got.r)

deserialize_object(T, data) ==
    LET done == ReadFields(as_tuple(T), DefaultObject(T), BufferReader(data))
    IN  [T |-> T, threw |-> done.r.underflow, value |-> done.value]

make_packet(type, payload) == U16(type) \o U32(Len(payload)) \o payload

encode(type, T, object) == make_packet(type, serialize_object(T, object))

decode(T, payload) == deserialize_object(T, payload)

\* the header at the front of a stream
Header(stream) ==
    [type |-> FromBytes(SubSeq(stream, 1, 2)),
     size |-> FromBytes(SubSeq(stream, 3, HeaderSize))]

\* the end of both readers: a payload of header.size bytes is allocated and
\* filled from the stream, which may end first
ReadPayload(who, stream) ==
    LET header == Header(stream)
    IN  IF Len(stream) - HeaderSize < header.size
        THEN [by |-> who, size |-> header.size, allocated |-> header.size,
              outcome |-> "eof", payload |-> << >>]
        ELSE [by |-> who, size |-> header.size, allocated |-> header.size,
              outcome |-> "ok",
              payload |-> SubSeq(stream, HeaderSize + 1, HeaderSize + header.size)]

\* ProtocolHelpers::receive_packet, which Connection::receive_packet calls:
\* the header's size is tested before the payload is allocated
receive_packet(stream) ==
    IF Header(stream).size > kMaxPayloadSize
    THEN [by |-> "server", size |-> Header(stream).size, allocated |-> 0,
          outcome |-> "rejected", payload |-> << >>]
    ELSE ReadPayload("server", stream)

\* Client::receive_packet
Client_receive_packet(stream) == ReadPayload("client", stream)

(************************* the codec run ************************************)
LongLen == 10000

\* the messages handed to encode: every schema, with "hi", a two-byte UTF-8
\* character, the empty string and a long string in its fields (the long
\* string only where a schema has at most two fields), INIT with up to two
\* history entries and up to two users
CodecInputs ==
    LET ShortStrings == {<< >>, << 104, 105 >>, << 195, 169 >>}
        Strings == ShortStrings \cup {[i \in 1..LongLen |-> 120]}
        Timestamps == {0, 7}
        Messages ==
            [username : {<< 104, 105 >>}, text : {<< >>, << 104, 105 >>},
             timestamp : Timestamps]
        Users ==
            {[username |-> << 104, 105 >>, user_id |-> << 49 >>],
             [username |-> << 195, 169 >>, user_id |-> << 50 >>]}
        UpTo2(S) ==
            {<< >>} \cup {<< x >> : x \in S} \cup {<< x, y >> : x \in S, y \in S}
        Objects(T) ==
            [{as_tuple(T)[i].name : i \in 1..Len(as_tuple(T))} ->
                IF Len(as_tuple(T)) > 2 THEN ShortStrings ELSE Strings]
        Input(type, T, objects) ==
            {[type |-> MessageType(type), T |-> T, value |-> object] :
                object \in objects}
    IN
    Input("INIT", "InitMsg", [messages : UpTo2(Messages), users : UpTo2(Users)])
    \cup Input("MESSAGE", "TextMsg", Objects("TextMsg"))
    \cup Input("BROADCAST", "BroadcastMsg",
               [username : ShortStrings, text : Strings, timestamp_ms : Timestamps])
    \cup Input("USER_JOINED", "UserJoinedMsg", Objects("UserJoinedMsg"))
    \cup Input("USER_LEFT", "UserLeftMsg", Objects("UserLeftMsg"))
    \cup Input("ERROR_MSG", "ErrorMsg", Objects("ErrorMsg"))
    \cup Input("SRP_REGISTER", "SrpRegisterMsg", Objects("SrpRegisterMsg"))
    \cup Input("SRP_INIT", "SrpInitMsg", Objects("SrpInitMsg"))
    \cup Input("SRP_CHALLENGE", "SrpChallengeMsg", Objects("SrpChallengeMsg"))
    \cup Input("SRP_RESPONSE", "SrpResponseMsg", Objects("SrpResponseMsg"))
    \cup Input("SRP_SUCCESS", "SrpSuccessMsg", Objects("SrpSuccessMsg"))

\* a message of some schema is about to be encoded; the server is idle
CodecInit ==
    /\ ServerInit({Pair(Honest("alice", "sesame", 3, << 1 >>),
                        Honest("bob", "password", 5, << 2 >>))},
                  {4}, [c \in Conns |-> 0], 0, 0)
    /\ movedFromKeeps
    /\ Running
    /\ RegistryIdle
    /\ UnitIdle
    /\ msg \in CodecInputs
    /\ packet = << >>
    /\ obj = [T |-> "none"]
    /\ received = [by |-> "none"]

\* the sender encodes the message and writes the packet
Encode ==
    /\ packet = << >>
    /\ packet' = encode(msg.type, msg.T, msg.value)
    /\ UNCHANGED << serverVars, stopVars, registryVars, unitVars, msg, obj, received >>

\* a peer writes only a header, declaring a payload that never comes
SendHeader ==
    /\ packet = << >>
    /\ \E size \in {1, kMaxPayloadSize, kMaxPayloadSize + 1} :
          packet' = U16(msg.type) \o U32(size)
    /\ UNCHANGED << serverVars, stopVars, registryVars, unitVars, msg, obj, received >>

\* the server's reader takes the packet off the stream
ServerReceive ==
    /\ packet # << >>
    /\ received.by = "none"
    /\ received' = receive_packet(packet)
    /\ UNCHANGED << serverVars, stopVars, registryVars, unitVars, msg, packet, obj >>

\* the client's reader takes the packet off the stream
ClientReceive ==
    /\ packet # << >>
    /\ received.by = "none"
    /\ received' = Client_receive_packet(packet)
    /\ UNCHANGED << serverVars, stopVars, registryVars, unitVars, msg, packet, obj >>

\* the receiver decodes the payload with the schema of the frame's type
Decode ==
    /\ received.by # "none"
    /\ received.outcome = "ok"
    /\ obj.T = "none"
    /\ obj' = decode(msg.T, received.payload)
    /\ UNCHANGED << serverVars, stopVars, registryVars, unitVars, msg, packet, received >>

CodecNext ==
    \/ Encode
    \/ SendHeader
    \/ ServerReceive
    \/ ClientReceive
    \/ Decode

CodecSpec == CodecInit /\ [][CodecNext]_vars

(************************* the registry run *********************************)
\* the ConnectionManager at the grain of its statements: each worker thread
\* makes up to MaxCalls calls; a call takes mutex_, runs the statements of
\* its body one at a time, and releases mutex_
MaxCalls == 2

\* what a thread may ask for: the registry calls a worker makes for its own
\* connection (Server::handle_srp_authentication, handle_message,
\* handle_disconnect)
Requests(t) ==
    LET Name(d) == IF d = 1 THEN "alice" ELSE "bob"
    IN
    {[op |-> "add", user_id |-> u, username |-> Name(t)] : u \in IdsFor(t)}
    \cup {[op |-> "remove", user_id |-> u, username |-> ""] : u \in IdsFor(t)}
    \cup {[op |-> "username_exists", user_id |-> "", username |-> Name(1)]}
    \cup {[op |-> "broadcast", user_id |-> u, username |-> ""] : u \in {"", "user_1"}}
    \cup {[op |-> "fan_out", user_id |-> "", username |-> Name(t)]}
    \cup {[op |-> "send_init", user_id |-> "", username |-> ""]}

registryRest ==
    << codecVars, unitVars, stopVars, movedFromKeeps, alive, users_, sessions_, user_keys_,
       message_history_, clock, pc, loc, client, entropy, quota >>

\* the packet of the fan-out a thread is in
Packet(t) ==
    [type |-> IF call[t].op = "broadcast" THEN "USER_LEFT" ELSE "BROADCAST",
     username |-> call[t].username, no |-> call[t].left, by |-> t]

Visited(t) == {call[t].log[i].user_id : i \in 1..Len(call[t].log)}

RegistryInit ==
    /\ ServerInit({Pair(Honest("alice", "sesame", 3, << 1 >>),
                        Honest("bob", "password", 5, << 2 >>))},
                  {4}, [c \in Conns |-> 0], MaxFaults, 0)
    /\ movedFromKeeps
    /\ Running
    /\ CodecIdle
    /\ UnitIdle
    /\ mutex_ = 0
    /\ call = [c \in Conns |-> [NoCall EXCEPT !.left = MaxCalls]]
    /\ calls = << >>

\* a thread enters a call
Invoke(t) ==
    /\ call[t].at \in {"idle", "done"}
    /\ call[t].left > 0
    /\ \E r \in Requests(t) :
          /\ call' = [call EXCEPT ![t] =
                [op |-> r.op,
                 body |-> IF r.op \in {"fan_out", "send_init"}
                          THEN "get_active_users" ELSE r.op,
                 at |-> IF r.op = "send_init" THEN "message_lock" ELSE "lock",
                 then |-> CASE r.op = "fan_out" -> "each"
                            [] r.op = "send_init" -> "send"
                            [] OTHER -> "return",
                 user_id |-> r.user_id, username |-> r.username,
                 users |-> {}, todo |-> {}, log |-> << >>, result |-> FALSE,
                 left |-> call[t].left - 1]]
          /\ calls' = IF r.op \in {"add", "remove", "username_exists"}
                      THEN Append(calls, [t |-> t, kind |-> "call", op |-> r.op,
                                          user_id |-> r.user_id,
                                          username |-> r.username,
                                          result |-> FALSE])
                      ELSE calls
    /\ UNCHANGED << registryRest, mutex_, connections_, user_id_to_username_,
                    open, net, wire, msgLock, faults >>

\* the mutex is not taken
lock_skipped(t) ==
    /\ call[t].at = "lock"
    /\ call' = [call EXCEPT ![t].at = "locked"]
    /\ UNCHANGED << registryRest, mutex_, calls, connections_,
                    user_id_to_username_, open, net, wire, msgLock, faults >>

\* std::lock_guard<std::mutex> lock(mutex_)
lock(t) ==
    /\ call[t].at = "lock"
    /\ mutex_ = 0
    /\ mutex_' = t
    /\ call' = [call EXCEPT ![t].at = "locked"]
    /\ UNCHANGED << registryRest, calls, connections_, user_id_to_username_,
                    open, net, wire, msgLock, faults >>

\* the end of a body that leaves mutex_ taken
unlock_kept(t) ==
    /\ call[t].at = "unlock"
    /\ mutex_' = mutex_
    /\ call' = [call EXCEPT ![t].at =
                   IF call[t].then = "return" THEN "done" ELSE call[t].then]
    /\ calls' = IF call[t].op \in {"add", "remove", "username_exists"}
                THEN Append(calls, [t |-> t, kind |-> "return", op |-> call[t].op,
                                    user_id |-> call[t].user_id,
                                    username |-> call[t].username,
                                    result |-> call[t].result])
                ELSE calls
    /\ UNCHANGED << registryRest, connections_, user_id_to_username_, open, net,
                    wire, msgLock, faults >>

\* the end of the body: the lock_guard releases mutex_; the call returns, or
\* its caller goes on
unlock(t) ==
    /\ call[t].at = "unlock"
    /\ mutex_' = 0
    /\ call' = [call EXCEPT ![t].at =
                   IF call[t].then = "return" THEN "done" ELSE call[t].then]
    /\ calls' = IF call[t].op \in {"add", "remove", "username_exists"}
                THEN Append(calls, [t |-> t, kind |-> "return", op |-> call[t].op,
                                    user_id |-> call[t].user_id,
                                    username |-> call[t].username,
                                    result |-> call[t].result])
                ELSE calls
    /\ UNCHANGED << registryRest, connections_, user_id_to_username_, open, net,
                    wire, msgLock, faults >>

\* add: connections_[user_id] = std::move(conn)
AddConnection(t) ==
    /\ call[t].body = "add"
    /\ call[t].at = "locked"
    /\ connections_' = Put(connections_, call[t].user_id, t)
    /\ call' = [call EXCEPT ![t].at = "add_username"]
    /\ UNCHANGED << registryRest, mutex_, calls, user_id_to_username_, open,
                    net, wire, msgLock, faults >>

\* add: user_id_to_username_[user_id] = username
AddUsername(t) ==
    /\ call[t].at = "add_username"
    /\ user_id_to_username_' =
          Put(user_id_to_username_, call[t].user_id, call[t].username)
    /\ call' = [call EXCEPT ![t].at = "unlock"]
    /\ UNCHANGED << registryRest, mutex_, calls, connections_, open, net, wire,
                    msgLock, faults >>

\* remove: the username entry is erased when found
RemoveUsername(t) ==
    /\ call[t].body = "remove"
    /\ call[t].at = "locked"
    /\ user_id_to_username_' = Del(user_id_to_username_, call[t].user_id)
    /\ call' = [call EXCEPT ![t].at = "remove_connection"]
    /\ UNCHANGED << registryRest, mutex_, calls, connections_, open, net, wire,
                    msgLock, faults >>

\* remove: the connection is closed and its entry erased when found
RemoveConnection(t) ==
    /\ call[t].at = "remove_connection"
    /\ open' = IF call[t].user_id \in DOMAIN connections_
               THEN [open EXCEPT ![connections_[call[t].user_id]] = FALSE]
               ELSE open
    /\ connections_' = Del(connections_, call[t].user_id)
    /\ call' = [call EXCEPT ![t].at = "unlock"]
    /\ UNCHANGED << registryRest, mutex_, calls, user_id_to_username_, net,
                    wire, msgLock, faults >>

\* username_exists: any_of over user_id_to_username_
UsernameExists(t) ==
    /\ call[t].body = "username_exists"
    /\ call[t].at = "locked"
    /\ call' = [call EXCEPT ![t].result = username_exists(call[t].username),
                            ![t].at = "unlock"]
    /\ UNCHANGED << registryRest, mutex_, calls, connections_,
                    user_id_to_username_, open, net, wire, msgLock, faults >>

\* get_active_users: the rows of user_id_to_username_
GetActiveUsers(t) ==
    /\ call[t].body = "get_active_users"
    /\ call[t].at = "locked"
    /\ call' = [call EXCEPT ![t].users = get_active_users,
                            ![t].todo = DOMAIN user_id_to_username_,
                            ![t].at = "unlock"]
    /\ UNCHANGED << registryRest, mutex_, calls, connections_,
                    user_id_to_username_, open, net, wire, msgLock, faults >>

\* the send of one round of the loop throws and nothing catches it
BroadcastEachAborting(t) ==
    /\ call[t].body = "broadcast"
    /\ call[t].at = "locked"
    /\ \E u \in DOMAIN connections_ \ Visited(t) :
          LET conn == connections_[u]
              tried == u # call[t].user_id /\ open[conn]
              sent == tried /\ SendOk(conn)
          IN  /\ wire' = IF sent THEN Written(wire, conn, Packet(t)) ELSE wire
              /\ call' = [call EXCEPT
                    ![t].log = Append(@, [user_id |-> u, tried |-> tried,
                                          sent |-> sent]),
                    ![t].todo = DOMAIN connections_ \ (Visited(t) \cup {u}),
                    ![t].at = IF tried /\ ~sent THEN "unlock" ELSE "locked"]
    /\ UNCHANGED << registryRest, mutex_, calls, connections_,
                    user_id_to_username_, open, net, msgLock, faults >>

\* broadcast: one round of the loop over connections_, in the order the
\* unordered_map yields; a send that throws is caught and logged
BroadcastEach(t) ==
    /\ call[t].body = "broadcast"
    /\ call[t].at = "locked"
    /\ \E u \in DOMAIN connections_ \ Visited(t) :
          LET conn == connections_[u]
              tried == u # call[t].user_id /\ open[conn]
              sent == tried /\ SendOk(conn)
          IN  /\ wire' = IF sent THEN Written(wire, conn, Packet(t)) ELSE wire
              /\ call' = [call EXCEPT
                    ![t].log = Append(@, [user_id |-> u, tried |-> tried,
                                          sent |-> sent]),
                    ![t].todo = DOMAIN connections_ \ (Visited(t) \cup {u})]
    /\ UNCHANGED << registryRest, mutex_, calls, connections_,
                    user_id_to_username_, open, net, msgLock, faults >>

\* broadcast: the loop has been through every row
BroadcastEnd(t) ==
    /\ call[t].body = "broadcast"
    /\ call[t].at = "locked"
    /\ DOMAIN connections_ \subseteq Visited(t)
    /\ call' = [call EXCEPT ![t].at = "unlock"]
    /\ UNCHANGED << registryRest, mutex_, calls, connections_,
                    user_id_to_username_, open, net, wire, msgLock, faults >>

\* handle_message, one round of the loop over the users (every user has a
\* key): encrypt_string throws, which is caught, or send_to is called
FanOutEach(t) ==
    /\ call[t].op = "fan_out"
    /\ call[t].at = "each"
    /\ \E u \in call[t].todo, encrypted \in BOOLEAN :
          call' = [call EXCEPT ![t] =
              IF encrypted
              THEN [@ EXCEPT !.body = "send_to", !.user_id = u, !.at = "lock"]
              ELSE [@ EXCEPT !.todo = @ \ {u},
                             !.log = Append(@, [user_id |-> u, tried |-> TRUE,
                                                sent |-> FALSE])]]
    /\ UNCHANGED << registryRest, mutex_, calls, connections_,
                    user_id_to_username_, open, net, wire, msgLock, faults >>

\* send_to: the packet is written when the row is there and open; a send that
\* throws is caught
SendTo(t) ==
    /\ call[t].body = "send_to"
    /\ call[t].at = "locked"
    /\ LET u == call[t].user_id
           tried == u \in DOMAIN connections_ /\ open[connections_[u]]
           sent == tried /\ SendOk(connections_[u])
       IN  /\ wire' = IF sent THEN Written(wire, connections_[u], Packet(t))
                      ELSE wire
           /\ call' = [call EXCEPT
                 ![t].log = Append(@, [user_id |-> u, tried |-> tried,
                                       sent |-> sent]),
                 ![t].todo = @ \ {u},
                 ![t].at = "unlock"]
    /\ UNCHANGED << registryRest, mutex_, calls, connections_,
                    user_id_to_username_, open, net, msgLock, faults >>

\* handle_message: the loop over the users is over
FanOutEnd(t) ==
    /\ call[t].op = "fan_out"
    /\ call[t].at = "each"
    /\ call[t].todo = {}
    /\ call' = [call EXCEPT ![t].at = "done"]
    /\ UNCHANGED << registryRest, mutex_, calls, connections_,
                    user_id_to_username_, open, net, wire, msgLock, faults >>

\* handle_srp_authentication, the INIT block: message_mutex_ is taken
MessageLock(t) ==
    /\ call[t].at = "message_lock"
    /\ msgLock = 0
    /\ msgLock' = t
    /\ call' = [call EXCEPT ![t].at = "lock"]
    /\ UNCHANGED << registryRest, mutex_, calls, connections_,
                    user_id_to_username_, open, net, wire, faults >>

\* the INIT block: INIT is sent and the block ends, releasing message_mutex_
InitSend(t) ==
    /\ call[t].at = "send"
    /\ wire' = IF SendOk(t)
               THEN Written(wire, t, [type |-> "INIT", messages |-> message_history_,
                                      users |-> call[t].users, by |-> t])
               ELSE wire
    /\ msgLock' = 0
    /\ call' = [call EXCEPT ![t].at = "done"]
    /\ UNCHANGED << registryRest, mutex_, calls, connections_,
                    user_id_to_username_, open, net, faults >>

RegistryNext ==
    \E t \in Conns :
        \/ Invoke(t)
        \/ lock(t)
        \/ unlock(t)
        \/ AddConnection(t)
        \/ AddUsername(t)
        \/ RemoveUsername(t)
        \/ RemoveConnection(t)
        \/ UsernameExists(t)
        \/ GetActiveUsers(t)
        \/ BroadcastEach(t)
        \/ BroadcastEnd(t)
        \/ FanOutEach(t)
        \/ SendTo(t)
        \/ FanOutEnd(t)
        \/ MessageLock(t)
        \/ InitSend(t)
        \/ PeerReset(t)

RegistrySpec == RegistryInit /\ [][RegistryNext]_vars

(************************* properties ***************************************)
Has(d, type, c) ==
    \E i \in 1..Len(wire[d]) : wire[d][i].type = type /\ wire[d][i].by = c

InRegistry(c) == HeldByRegistry(c)

AfterAdd == {"hs_key", "hs_init", "hs_init_send", "hs_joined"}
InLoop == {"cl_start", "cl_loop", "cl_key", "hm_store", "hm_users", "hm_each", "hm_send"}
Leaving == {"cl_exit", "hd_erase", "hd_remove"}

\* the worker has run ConnectionManager::add and not yet ConnectionManager::remove
Inserted(c) == pc[c] \in AfterAdd \cup InLoop \cup Leaving

\* the worker went through handle_client and returned
Finished(c) == pc[c] = "done" /\ loc[c].verify # NoVerify

\* verify_authentication returned for the user_id of this connection's
\* challenge and SRP_SUCCESS was written
Verified(c) ==
    /\ loc[c].verify # NoVerify
    /\ loc[c].user_id = loc[c].challenge.user_id
    /\ Has(c, "SRP_SUCCESS", c)

\* the client's password is the one its username is registered with
RightPassword(c) ==
    /\ client[c].kind = "honest"
    /\ client[c].username \in DOMAIN users_
    /\ users_[client[c].username].verifier =
         Credentials(client[c].username, client[c].password,
                     users_[client[c].username].salt).verifier

WrongPassword(c) ==
    /\ client[c].kind = "honest"
    /\ client[c].username \in DOMAIN users_
    /\ users_[client[c].username].verifier #
         Credentials(client[c].username, client[c].password,
                     users_[client[c].username].salt).verifier

\* C1: of two connections that log in under the same username at most one is
\* inserted into the registry (the other is turned away as a duplicate login)
C1_OneLoginPerUsername ==
    \A c, d \in Conns :
        (c # d /\ Inserted(c) /\ Inserted(d)) => loc[c].username # loc[d].username

\* C2: a connection is in the registry, and its worker in the message loop,
\* only after verify_authentication succeeded for the user_id of its challenge
\* and SRP_SUCCESS was sent; a MESSAGE is handled only after INIT was sent
C2_RegisteredAfterProof ==
    /\ \A uid \in DOMAIN connections_ :
          Verified(connections_[uid]) /\ loc[connections_[uid]].user_id = uid
    /\ \A c \in Conns :
          /\ (Inserted(c) \/ pc[c] = "hd_left") => Verified(c)
          /\ pc[c] \in InLoop => Has(c, "INIT", c)

C2_Witness ==
    \E c \in Conns : pc[c] = "hm_store" /\ InRegistry(c)

JoinedFrame(c) ==
    [type |-> "USER_JOINED", username |-> loc[c].username,
     user_id |-> loc[c].user_id, by |-> c]

\* C3: USER_JOINED{U} is written only after U's INIT and never to U itself,
\* and the broadcast of USER_JOINED{U} writes it to every other connection of
\* the registry that can be written to
C3_JoinedAfterInit ==
    /\ [](\A c, d \in Conns :
            Has(d, "USER_JOINED", c) => (d # c /\ Has(c, "INIT", c)))
    /\ [][\A c \in Conns :
            (pc[c] = "hs_joined" /\ pc'[c] = "cl_start") =>
                \A d \in Conns \ {c} :
                    (InRegistry(d) /\ SendOk(d)) =>
                        wire'[d] = Append(wire[d], JoinedFrame(c))]_vars

\* C4: once the worker of a registered user has left handle_client the user
\* is out of the registry and its socket is closed, and USER_LEFT{U} is on
\* the wire only when U is out of the registry and U's socket is closed
C4_LeftAfterRemoval ==
    \A c \in Conns :
        /\ Finished(c) => (~InRegistry(c) /\ ~open[c])
        /\ \A d \in Conns :
              Has(d, "USER_LEFT", c) => (~InRegistry(c) /\ ~open[c])

\* C5: after the worker thread of a connection has finished, the connection
\* is not in the registry, its session key is not in the key table and its
\* username is free unless another connection holds it
C5_NothingLeftBehind ==
    \A c \in Conns :
        Finished(c) =>
            /\ ~InRegistry(c)
            /\ \A uid \in DOMAIN user_keys_ : user_keys_[uid] # loc[c].session_key
            /\ (\A d \in Conns \ {c} : ~Inserted(d)) => ~username_exists(loc[c].username)

\* the BROADCAST worker c makes of its message for the connection d
BroadcastFor(c, d) ==
    [type |-> "BROADCAST", username |-> loc[c].username,
     ciphertext_b64 |-> bytes_to_base64(encrypt_string(loc[c].text, loc[d].session_key)),
     timestamp_ms |-> loc[c].timestamp, by |-> c]

\* C6: handle_message appends (username, plaintext, now) to the history, and
\* when its loop is done with a user of the registry snapshot whose row is
\* still in the registry with a writable connection, that connection has got
\* the BROADCAST with the sender's username sealed under its own session key
C6_FanOutToRegistry ==
    [][\A c \in Conns :
        /\ (pc[c] = "hm_store" /\ pc'[c] = "hm_users") =>
              /\ Len(message_history_') > 0
              /\ message_history_'[Len(message_history_')] =
                    [username |-> loc[c].username, text |-> loc[c].text,
                     timestamp |-> loc[c].timestamp]
        /\ (pc[c] \in {"hm_each", "hm_send"} /\ pc'[c] \in {"hm_each", "cl_loop"}) =>
              \A user \in loc[c].todo \ loc'[c].todo :
                  (/\ user.user_id \in DOMAIN connections_
                   /\ SendOk(connections_[user.user_id])) =>
                      wire'[connections_[user.user_id]] =
                          Append(wire[connections_[user.user_id]],
                                 BroadcastFor(c, connections_[user.user_id]))]_vars

\* C7: the history never holds more than kMaxMessageHistory entries, and
\* every insertion leaves the most recent kMaxMessageHistory entries of the
\* old history followed by the new entry, in that order
C7_HistoryBounded ==
    /\ [](Len(message_history_) <= kMaxMessageHistory)
    /\ [][\A c \in Conns :
            (pc[c] = "hm_store" /\ pc'[c] = "hm_users") =>
                LET all == Append(message_history_,
                                  [username |-> loc[c].cl_username,
                                   text |-> loc[c].text,
                                   timestamp |-> loc[c].timestamp])
                    first == IF Len(all) > kMaxMessageHistory
                             THEN Len(all) - kMaxMessageHistory + 1 ELSE 1
                IN message_history_' = SubSeq(all, first, Len(all))]_vars

\* kMaxMessageHistory + MaxOverflow messages were stored: the history is
\* full and its oldest entries are gone
C7_Witness ==
    /\ Len(message_history_) = kMaxMessageHistory
    /\ clock = kMaxMessageHistory + MaxOverflow + 1
    /\ \A c \in Conns : pc[c] \notin {"cl_key", "hm_store"}
    /\ \A i \in 1..Len(message_history_) : message_history_[i].timestamp > MaxOverflow

\* C8: the proof of an honest client that uses the registered password is
\* accepted by verify_authentication, both sides hold the same K, and the
\* client accepts the server's H_AMK
C8_HonestProofAccepted ==
    \A c \in Conns :
        (pc[c] = "hs_verify" /\ RightPassword(c)
            /\ loc[c].user_id \in DOMAIN sessions_) =>
            \A username \in UsernamesOfSalt(sessions_[loc[c].user_id].salt) :
                LET r == verify_authentication(sessions_[loc[c].user_id],
                                               username, loc[c].M)
                    mine == process_challenge(client[c].username, client[c].password,
                                              client[c].a, loc[c].challenge.B,
                                              loc[c].challenge.salt)
                IN /\ r.ok
                   /\ r.K = mine.K
                   /\ verify_server(client[c].a, mine.M, mine.K, r.H_AMK)

\* C9: a client that runs the handshake with a password other than the
\* registered one gets no SRP_SUCCESS and no session key, is never added to
\* the registry, and its handshake ends with ERROR
C9_WrongPasswordRejected ==
    \A c \in Conns :
        WrongPassword(c) =>
            /\ pc[c] \in {"hs_recv", "hs_recv_resp", "hs_verify", "done"}
            /\ loc[c].verify = NoVerify
            /\ loc[c].session_key = NoKey
            /\ ~Has(c, "SRP_SUCCESS", c)
            /\ ~InRegistry(c)
            /\ \A uid \in DOMAIN user_keys_ : user_keys_[uid] # KeyBytes(entropy[c].key)
            /\ pc[c] = "done" => LastType(c) = "ERROR"

C9_Witness ==
    \E c \in Conns :
        /\ WrongPassword(c)
        /\ pc[c] = "done"
        /\ LastType(c) = "ERROR"
        /\ LastFrame(c).error_msg = "Authentication failed"

\* the A of the client is 0 modulo N, or u = H(A, B) is 0
Degenerate(c) ==
    \/ BigNum(ClientA(c)) % N = 0
    \/ /\ loc[c].challenge # NoChallenge
       /\ calculate_u(BigNum(ClientA(c)), BigNum(loc[c].challenge.B)) = 0

\* C10: a handshake whose A is 0 modulo N, or whose u is 0, gets no
\* SRP_SUCCESS and no session key
C10_DegenerateRejected ==
    \A c \in Conns :
        Degenerate(c) => (~Has(c, "SRP_SUCCESS", c) /\ loc[c].session_key = NoKey)

\* the B of the challenge the client of c has received is 0 modulo N, or the
\* u = H(A, B) the client computes from it is 0
DegenerateChallenge(c) ==
    LET B == BigNum(base64_to_bytes(LastFrame(c).B_b64))
    IN \/ B % N = 0
       \/ calculate_u(ModExp(g, client[c].a, N), B) = 0

\* C11: process_challenge produces no proof M for a challenge whose B is 0
\* modulo N or whose u = H(A, B) is 0
C11_ChallengeRejected ==
    \A c \in Conns :
        (client[c].kind = "honest" /\ LastType(c) = "SRP_CHALLENGE"
            /\ DegenerateChallenge(c)) =>
            process_challenge(client[c].username, client[c].password, client[c].a,
                              base64_to_bytes(LastFrame(c).B_b64),
                              base64_to_bytes(LastFrame(c).salt_b64)).M = << >>

\* the type of the frame a step has appended to the wire of c
Appended(c, type) ==
    /\ wire'[c] # wire[c]
    /\ wire'[c][Len(wire'[c])].type = type

C13_RegisterOnce ==
    [][\A c \in Conns :
        (pc[c] = "reg_insert" /\ pc'[c] # "reg_insert") =>
            /\ loc[c].reg.username \notin DOMAIN users_
            /\ \A d \in Conns \ {c} :
                  ~(Has(d, "SRP_REGISTER_ACK", d)
                    /\ client[d].username = client[c].username)]_vars

\* the handshake of c has ended: by promotion into the registry, by an error
\* reply, or by the end of the connection
HandshakeOver(c) == pc[c] \in AfterAdd \cup InLoop \cup Leaving \cup {"hd_left", "done"}

\* C14: once the handshake of a connection has ended, the session that
\* init_authentication stored under the user_id it generated for that
\* connection is no longer in the session table
C14_SessionDestroyed ==
    \A c \in Conns :
        (HandshakeOver(c) /\ loc[c].issued # "") => loc[c].issued \notin DOMAIN sessions_

\* the step in which the worker of c gets a challenge from init_authentication
Issues(c) == pc[c] = "hs_recv" /\ pc'[c] = "hs_recv_resp"

\* C15: the user_id init_authentication generates is the key of no session
\* and of no registry row that exists at that moment
C15_FreshUserId ==
    [][\A c \in Conns :
        Issues(c) =>
            /\ loc'[c].issued \notin DOMAIN sessions_
            /\ loc'[c].issued \notin DOMAIN connections_]_vars

\* C16: init_authentication adds to the session table the session of the
\* generated user_id and no other entry, and its challenge carries that
\* user_id and the B of that session, which is (k*v + g^b) mod N
C16_ChallengeOfSession ==
    [][\A c \in Conns :
        Issues(c) =>
            /\ DOMAIN sessions_' = DOMAIN sessions_ \cup {loc'[c].issued}
            /\ loc'[c].challenge.user_id = loc'[c].issued
            /\ loc'[c].challenge.B = sessions_'[loc'[c].issued].B
            /\ sessions_'[loc'[c].issued].B =
                  to_bytes(calculate_B(calculate_k,
                                       BigNum(users_[loc'[c].username].verifier),
                                       entropy[c].b))]_vars

\* C17: the session key verify_authentication returns is the KEY_SIZE bytes
\* drawn for it, and the key the server keeps for the user is what one
\* base64 decoding of the session_key_b64 of SRP_SUCCESS yields
C17_SessionKeyDelivered ==
    \A c \in Conns :
        (Has(c, "SRP_SUCCESS", c) /\ loc[c].verify # NoVerify) =>
            /\ loc[c].verify.session_key = KeyBytes(entropy[c].key)
            /\ loc[c].session_key = base64_to_bytes(SuccessFrame(c).session_key_b64)

\* C18: the duplicate-login ERROR is sent only to a client whose proof
\* verify_authentication has accepted
C18_ProofBeforeDuplicateCheck ==
    \A c \in Conns :
        (/\ pc[c] = "done"
         /\ LastType(c) = "ERROR"
         /\ LastFrame(c).error_msg = "User already logged in") =>
            loc[c].verify # NoVerify

\* C19: no two user_ids of the registry map to the same username
C19_UsernameUnique ==
    \A u, w \in DOMAIN user_id_to_username_ :
        u # w => user_id_to_username_[u] # user_id_to_username_[w]

\* C20: a user_id has a registry row (connection and username) exactly when
\* the server holds a session key for it
C20_RowIffKey ==
    /\ DOMAIN connections_ = DOMAIN user_id_to_username_
    /\ DOMAIN connections_ = DOMAIN user_keys_

\* C27: a MESSAGE whose ciphertext does not decrypt under the user's session
\* key is answered with ERROR on that connection, ends the message loop, and
\* leaves the history and every other wire as they were
C27_TamperedFrameAnswered ==
    [][\A c \in Conns :
        (/\ pc[c] = "cl_key" /\ pc'[c] # "cl_key"
         /\ SendOk(c)
         /\ loc[c].user_id \in DOMAIN user_keys_
         /\ ~DecryptOk(loc[c].envelope, user_keys_[loc[c].user_id])) =>
            /\ Appended(c, "ERROR")
            /\ pc'[c] = "cl_exit"
            /\ message_history_' = message_history_
            /\ \A d \in Conns \ {c} : wire'[d] = wire[d]]_vars

\* C28: the MESSAGE frame Client::send_message makes of a typed line opens
\* under the session key the server holds for that connection and yields the
\* line, and what Client::handle_broadcast stores of a BROADCAST is not the
\* undecrypted ciphertext field
C28_ClientSealsMessages ==
    \A c \in Conns :
        (client[c].kind = "honest" /\ pc[c] \in InLoop) =>
            /\ DecryptOk(send_message(<< c, quota[c] >>), loc[c].session_key)
            /\ decrypt_string(send_message(<< c, quota[c] >>), loc[c].session_key)
                  = << c, quota[c] >>
            /\ \A i \in 1..Len(wire[c]) :
                  wire[c][i].type = "BROADCAST" =>
                      handle_broadcast(wire[c][i]).text # wire[c][i].ciphertext_b64

\* C26: once Server::stop() has been called, every connection socket is
\* closed
C26_StopClosesSockets ==
    ~running_ => \A c \in Conns : ~open[c]

\* C29: a frame reader that meets a header declaring more than 1 MiB rejects
\* it and has allocated nothing for the payload
C29_OversizeRejected ==
    (received.by # "none" /\ received.size > kMaxPayloadSize) =>
        /\ received.outcome = "rejected"
        /\ received.allocated = 0

\* C30: what decode returns for the payload of an encoded message equals the
\* message, field for field
C30_DecodeEncode ==
    obj.T # "none" => (~obj.threw /\ obj.value = msg.value)

\* C21: ConnectionManager::remove(user_id) closes the row's connection and
\* deletes its connection entry and its username entry, leaves every other
\* row as it was, changes nothing when user_id has no row, and afterwards
\* get_username_by_user_id(user_id) is "" and username_exists of the former
\* username is false
C21_RemoveEffect ==
    [][\A c \in Conns :
          (pc[c] = "hd_remove" /\ pc'[c] = "hd_left") =>
              LET user_id == loc[c].user_id
                  former == get_username_by_user_id(user_id)
              IN  /\ user_id \notin DOMAIN connections_'
                  /\ user_id \notin DOMAIN user_id_to_username_'
                  /\ user_id \in DOMAIN connections_ =>
                        ~open'[connections_[user_id]]
                  /\ \A u \in DOMAIN connections_ \ {user_id} :
                        /\ u \in DOMAIN connections_'
                        /\ connections_'[u] = connections_[u]
                        /\ (user_id \in DOMAIN connections_
                             /\ connections_[u] # connections_[user_id]) =>
                               open'[connections_[u]] = open[connections_[u]]
                  /\ \A u \in DOMAIN user_id_to_username_ \ {user_id} :
                        /\ u \in DOMAIN user_id_to_username_'
                        /\ user_id_to_username_'[u] = user_id_to_username_[u]
                  /\ (user_id \notin DOMAIN connections_
                       /\ user_id \notin DOMAIN user_id_to_username_) =>
                         /\ connections_' = connections_
                         /\ user_id_to_username_' = user_id_to_username_
                         /\ open' = open
                  /\ user_id \in DOMAIN user_id_to_username_ =>
                        ~\E u \in DOMAIN user_id_to_username_' :
                            user_id_to_username_'[u] = former]_vars

(************************* the registry as a sequential object **************)
Registry ==
    [connections |-> connections_, usernames |-> user_id_to_username_,
     open |-> open]

Registry0 ==
    [connections |-> EmptyMap, usernames |-> EmptyMap,
     open |-> [c \in Conns |-> TRUE]]

\* what a call does to the registry, and returns, when it runs alone
Sequential(reg, e) ==
    CASE e.op = "add" ->
            [registry |-> [reg EXCEPT
                 !.connections = Put(@, e.user_id, e.t),
                 !.usernames = Put(@, e.user_id, e.username)],
             result |-> FALSE]
      [] e.op = "remove" ->
            [registry |-> [reg EXCEPT
                 !.connections = Del(@, e.user_id),
                 !.usernames = Del(@, e.user_id),
                 !.open = IF e.user_id \in DOMAIN reg.connections
                          THEN [@ EXCEPT ![reg.connections[e.user_id]] = FALSE]
                          ELSE @],
             result |-> FALSE]
      [] e.op = "username_exists" ->
            [registry |-> reg,
             result |-> \E u \in DOMAIN reg.usernames :
                            reg.usernames[u] = e.username]

Quiescent == \A t \in Conns : call[t].at \in {"idle", "done"}

Called == {i \in 1..Len(calls) : calls[i].kind = "call"}

ReturnOf(i) ==
    CHOOSE j \in (i + 1)..Len(calls) :
        /\ calls[j].t = calls[i].t
        /\ \A k \in (i + 1)..(j - 1) : calls[k].t # calls[i].t

Orders ==
    {o \in [1..Cardinality(Called) -> Called] :
        \A i, j \in 1..Cardinality(Called) : i # j => o[i] # o[j]}

\* a call that returned before another was made comes first
RealTime(o) ==
    \A i, j \in 1..Cardinality(Called) : i < j => ~(ReturnOf(o[j]) < o[i])

RECURSIVE Replays(_, _, _)
Replays(o, i, reg) ==
    IF i > Cardinality(Called) THEN reg = Registry
    ELSE LET out == Sequential(reg, calls[o[i]])
         IN  /\ out.result = calls[ReturnOf(o[i])].result
             /\ Replays(o, i + 1, out.registry)

Own(t) == IF t = 1 THEN "user_1" ELSE "user_2"

ThreadCalls(t) ==
    SelectSeq(calls, LAMBDA e : e.t = t /\ e.kind = "call")

\* C22: whenever no call is under way, the results of the add, remove and
\* username_exists calls made so far and the registry equal those of the
\* calls run one after another in some order that respects their real-time
\* order; adds of one user_id alone leave exactly one row; threads that each
\* add and then remove their own user_id leave the registry empty
C22_Linearizable ==
    Quiescent =>
        /\ \E o \in Orders : RealTime(o) /\ Replays(o, 1, Registry0)
        /\ (/\ calls # << >>
            /\ \A i \in 1..Len(calls) :
                  calls[i].op = "add" /\ calls[i].user_id = "user_1") =>
              /\ DOMAIN connections_ = {"user_1"}
              /\ DOMAIN user_id_to_username_ = {"user_1"}
        /\ (\A t \in Conns :
               /\ Len(ThreadCalls(t)) = 2
               /\ ThreadCalls(t)[1].op = "add"
               /\ ThreadCalls(t)[1].user_id = Own(t)
               /\ ThreadCalls(t)[2].op = "remove"
               /\ ThreadCalls(t)[2].user_id = Own(t)) =>
              /\ connections_ = EmptyMap
              /\ user_id_to_username_ = EmptyMap

\* two threads were inside add of the same user_id at the same time, and both
\* have returned
C22_Witness ==
    /\ Quiescent
    /\ Len(calls) = 4
    /\ calls[1].kind = "call" /\ calls[2].kind = "call"
    /\ calls[1].t # calls[2].t
    /\ \A i \in 1..4 : calls[i].op = "add" /\ calls[i].user_id = "user_1"

\* C23: no thread holds the history mutex and the registry mutex at once
C23_OneLockAtATime ==
    \A t \in Conns : ~(msgLock = t /\ mutex_ = t)

\* C24: the thread that writes a packet to a socket does not hold the
\* registry mutex while it writes
C24_NoSendUnderLock ==
    [][\A d \in Conns :
          wire'[d] # wire[d] => mutex_ # wire'[d][Len(wire'[d])].by]_vars

C35_InitFirst ==
    \A c \in Conns : \A i \in 1..Len(wire[c]) :
        (wire[c][i].type = "SRP_SUCCESS" /\ i < Len(wire[c])) =>
            wire[c][i + 1].type \notin {"BROADCAST", "USER_JOINED", "USER_LEFT"}


(************************* the client ***************************************)
\* the size Client::handle_broadcast trims messages_ to
kClientMessages == 50

MaxFrames == 52

\* every variable of the server, which the client, the credential file and the
\* cipher leave alone
unitRest == << serverVars, stopVars, registryVars, codecVars >>

\* SRPClient::generate_A: a new a is drawn, A is computed, A is returned
GenerateA ==
    /\ arrived = 0
    /\ \E a \in {3, 5} :
          srp_client_' = [srp_client_ EXCEPT
              !.a = a,
              !.A = ModExp(g, a, N),
              !.returned = [by |-> "generate_A", threw |-> FALSE,
                            value |-> generate_A(a)]]
    /\ UNCHANGED << unitRest, messages_, arrived, file, aes >>

\* SRPClient::process_challenge with the B and the salt of an SRP_CHALLENGE
ProcessChallenge ==
    /\ arrived = 0
    /\ \E b \in {4, 7}, salt \in {<< 1 >>, << 2 >>} :
          LET B == to_bytes(calculate_B(calculate_k,
                        BigNum(Credentials("alice", "sesame", salt).verifier), b))
              proof == process_challenge("alice", "sesame", srp_client_.a, B, salt)
          IN IF srp_client_.A = 0
             THEN srp_client_' = [srp_client_ EXCEPT
                      !.returned = [by |-> "process_challenge", threw |-> TRUE,
                                    value |-> << >>]]
             ELSE srp_client_' = [srp_client_ EXCEPT
                      !.K = proof.K,
                      !.M = proof.M,
                      !.returned = [by |-> "process_challenge", threw |-> FALSE,
                                    value |-> proof.M]]
    /\ UNCHANGED << unitRest, messages_, arrived, file, aes >>

\* SRPClient::verify_server with the H_AMK of an SRP_SUCCESS
VerifyServer ==
    /\ arrived = 0
    /\ \E H_AMK \in {calculate_H_AMK(srp_client_.A, srp_client_.M, srp_client_.K),
                     << 0 >>, << >>} :
          IF srp_client_.M = << >> \/ srp_client_.K = << >>
          THEN srp_client_' = [srp_client_ EXCEPT
                   !.returned = [by |-> "verify_server", threw |-> TRUE,
                                 value |-> << >>]]
          ELSE IF Len(H_AMK) # Len(calculate_H_AMK(srp_client_.A, srp_client_.M,
                                                   srp_client_.K))
          THEN srp_client_' = [srp_client_ EXCEPT
                   !.returned = [by |-> "verify_server", threw |-> FALSE,
                                 value |-> << 0 >>]]
          ELSE LET same == verify_server(srp_client_.a, srp_client_.M,
                                         srp_client_.K, H_AMK)
               IN srp_client_' = [srp_client_ EXCEPT
                      !.authenticated = same,
                      !.returned = [by |-> "verify_server", threw |-> FALSE,
                                    value |-> IF same THEN << 1 >> ELSE << 0 >>]]
    /\ UNCHANGED << unitRest, messages_, arrived, file, aes >>

\* Client::handle_packet, case INIT: messages_ becomes the history of the
\* frame, which holds what the server's history held
HandleInit ==
    /\ srp_client_.authenticated
    /\ arrived < MaxFrames
    /\ \E n \in {0, kClientMessages, kClientMessages + 1, kMaxMessageHistory} :
          messages_' = PastHistory(n)
    /\ arrived' = arrived + 1
    /\ UNCHANGED << unitRest, srp_client_, file, aes >>

\* Client::handle_broadcast: the entry is appended and, above 50 entries, the
\* first one is erased
HandleBroadcast ==
    /\ srp_client_.authenticated
    /\ arrived < MaxFrames
    /\ LET timestamp == IF messages_ = << >> THEN 1
                        ELSE messages_[Len(messages_)].timestamp + 1
           added == Append(messages_, [username |-> "bob", text |-> << 0, timestamp >>,
                                       timestamp |-> timestamp])
       IN messages_' = IF Len(added) > kClientMessages THEN Tail(added) ELSE added
    /\ arrived' = arrived + 1
    /\ UNCHANGED << unitRest, srp_client_, file, aes >>

\* a client that has been constructed: nothing is authenticated or received
ClientInit ==
    /\ ServerInit({Pair(Honest("alice", "sesame", 3, << 1 >>),
                        Honest("bob", "password", 5, << 2 >>))},
                  {4}, [c \in Conns |-> 0], 0, 0)
    /\ movedFromKeeps
    /\ Running
    /\ RegistryIdle
    /\ CodecIdle
    /\ UnitIdle

ClientNext ==
    \/ GenerateA
    \/ ProcessChallenge
    \/ VerifyServer
    \/ HandleInit
    \/ HandleBroadcast

ClientSpec == ClientInit /\ [][ClientNext]_vars

\* C31: the client's message list never holds more than 50 entries, and its
\* entries are consecutive arrivals in the order they arrived
C31_ClientListBounded ==
    /\ Len(messages_) <= kClientMessages
    /\ \A i \in 1..(Len(messages_) - 1) :
          messages_[i + 1].timestamp = messages_[i].timestamp + 1

\* C32: a call of generate_A on an SRPClient that is no longer in its initial
\* state throws and leaves a and A as they were
C32_GenerateAOnlyOnce ==
    [][(GenerateA /\ srp_client_ # NoSRPClient) =>
           /\ srp_client_'.returned.threw
           /\ srp_client_'.a = srp_client_.a
           /\ srp_client_'.A = srp_client_.A]_vars

(************************* the credential file ******************************)
\* In this part a std::string is the sequence of its characters, so that
\* users.db is the text save_users writes and load_users reads.
MaxUsers == 2

HexDigits ==
    << "0", "1", "2", "3", "4", "5", "6", "7", "8", "9", "a", "b", "c", "d", "e", "f" >>

\* SRPUtils::bytes_to_hex: two lower-case digits for every byte
bytes_to_hex(bytes) ==
    Concat([i \in 1..Len(bytes) |->
               << HexDigits[(bytes[i] \div 16) + 1], HexDigits[(bytes[i] % 16) + 1] >>])

\* std::stoi(byte_str, nullptr, 16) of one or two characters: the digits at the
\* front are converted, and -1 stands for std::invalid_argument when there is
\* none
stoi(byte_str) ==
    LET value(ch) == IF \E d \in 1..16 : HexDigits[d] = ch
                     THEN (CHOOSE d \in 1..16 : HexDigits[d] = ch) - 1
                     ELSE -1
        first == value(byte_str[1])
    IN IF first < 0 THEN -1
       ELSE IF Len(byte_str) = 2 /\ value(byte_str[2]) >= 0
       THEN (16 * first) + value(byte_str[2])
       ELSE first

\* SRPUtils::hex_to_bytes: one byte for every two characters, the last one
\* from a single character when the length is odd
RECURSIVE hex_to_bytes(_)
hex_to_bytes(hex) ==
    IF Len(hex) = 0 THEN [ok |-> TRUE, bytes |-> << >>]
    ELSE LET byte_str == SubSeq(hex, 1, IF Len(hex) < 2 THEN 1 ELSE 2)
             byte == stoi(byte_str)
             others == hex_to_bytes(SubSeq(hex, 3, Len(hex)))
         IN IF byte < 0 THEN [ok |-> FALSE, bytes |-> << >>]
            ELSE [ok |-> others.ok, bytes |-> << byte % 256 >> \o others.bytes]

\* std::getline(stream, line, delim): the characters before the first delim,
\* which is dropped; it fails on a stream at its end and when it extracts
\* nothing
getline(stream, delim) ==
    LET text == stream.text
        found == {i \in 1..Len(text) : text[i] = delim}
        at == CHOOSE i \in found : \A j \in found : i <= j
    IN IF stream.eof THEN [ok |-> FALSE, line |-> << >>, text |-> text, eof |-> TRUE]
       ELSE IF found = {}
       THEN [ok |-> Len(text) > 0, line |-> text, text |-> << >>, eof |-> TRUE]
       ELSE [ok |-> TRUE, line |-> SubSeq(text, 1, at - 1),
             text |-> SubSeq(text, at + 1, Len(text)), eof |-> FALSE]

\* SRPServer::load_users, the loop over the lines of the file
RECURSIVE LoadLines(_, _)
LoadLines(stream, users) ==
    LET next == getline(stream, "\n")
        line == next.line
        username == getline([text |-> line, eof |-> FALSE], ":")
        salt_hex == getline(username, ":")
        verifier_hex == getline(salt_hex, "\n")
        salt == hex_to_bytes(salt_hex.line)
        verifier == hex_to_bytes(verifier_hex.line)
        creds == [username |-> username.line, salt |-> salt.bytes,
                  verifier |-> verifier.bytes]
    IN IF ~next.ok THEN [ok |-> TRUE, users |-> users]
       ELSE IF Len(line) = 0 \/ line[1] = "#" THEN LoadLines(next, users)
       ELSE IF ~(username.ok /\ salt_hex.ok /\ verifier_hex.ok)
       THEN LoadLines(next, users)
       ELSE IF ~(salt.ok /\ verifier.ok) THEN [ok |-> FALSE, users |-> users]
       ELSE LoadLines(next, Put(users, username.line, creds))

\* SRPServer::load_users of an open file: users_ is cleared and filled; ok is
\* FALSE when hex_to_bytes threw
load_users(text) == LoadLines([text |-> text, eof |-> FALSE], EmptyMap)

\* SRPServer::save_users, the unordered_map being walked in some order
save_users(users, order) ==
    LET title == << "#", " ", "S", "R", "P", " ", "U", "s", "e", "r", " ",
                    "D", "a", "t", "a", "b", "a", "s", "e" >>
        format == << "#", " ", "F", "o", "r", "m", "a", "t", ":", " ",
                     "u", "s", "e", "r", "n", "a", "m", "e", ":",
                     "s", "a", "l", "t", "_", "h", "e", "x", ":",
                     "v", "e", "r", "i", "f", "i", "e", "r", "_", "h", "e", "x" >>
        record(username) ==
            username \o << ":" >> \o bytes_to_hex(users[username].salt)
            \o << ":" >> \o bytes_to_hex(users[username].verifier) \o << "\n" >>
    IN title \o << "\n" >> \o format \o << "\n" >>
       \o Concat([i \in 1..Len(order) |-> record(order[i])])

\* SRPServer::register_user with a username, salt and verifier that
\* handle_srp_register accepts: none of them is empty
RegisterUser ==
    /\ Cardinality(DOMAIN users_) < MaxUsers
    /\ \E username \in {<< "a", "l" >>, << "b", "o" >>, << "a", ":", "b" >>,
                        << "#", "a" >>, << "a", "\n", "b" >>},
          salt \in {<< 1 >>, << 171, 16 >>},
          verifier \in {<< 2 >>, << 255, 0, 7 >>} :
          /\ username \notin DOMAIN users_
          /\ users_' = Put(users_, username,
                           [username |-> username, salt |-> salt, verifier |-> verifier])
    /\ UNCHANGED << stopVars, registryVars, codecVars, messages_, srp_client_, arrived,
                    file, aes, movedFromKeeps, alive, sessions_, connections_,
                    user_id_to_username_, user_keys_, message_history_, msgLock,
                    clock, open, net, wire, pc, loc, client, entropy, quota, faults >>

\* SRPServer::save_users("users.db")
SaveUsers ==
    /\ \E order \in [1..Cardinality(DOMAIN users_) -> DOMAIN users_] :
          /\ \A i, j \in DOMAIN order : order[i] = order[j] => i = j
          /\ file' = [file EXCEPT !.exists = TRUE, !.text = save_users(users_, order)]
    /\ UNCHANGED << unitRest, messages_, srp_client_, arrived, aes >>

\* SRPServer::load_users("users.db"), as the constructor of Server calls it
LoadUsers ==
    /\ IF ~file.exists
       THEN UNCHANGED << users_, file >>
       ELSE /\ users_' = load_users(file.text).users
            /\ file' = [file EXCEPT
                  !.loaded = IF load_users(file.text).ok THEN "ok" ELSE "threw"]
    /\ UNCHANGED << stopVars, registryVars, codecVars, messages_, srp_client_, arrived,
                    aes, movedFromKeeps, alive, sessions_, connections_,
                    user_id_to_username_, user_keys_, message_history_, msgLock,
                    clock, open, net, wire, pc, loc, client, entropy, quota, faults >>

\* a server that starts without users.db
StoreInit ==
    /\ movedFromKeeps = TRUE
    /\ alive = TRUE
    /\ users_ = EmptyMap
    /\ sessions_ = EmptyMap
    /\ connections_ = EmptyMap
    /\ user_id_to_username_ = EmptyMap
    /\ user_keys_ = EmptyMap
    /\ message_history_ = << >>
    /\ msgLock = 0
    /\ clock = 1
    /\ client = Pair(Honest("alice", "sesame", 3, << 1 >>),
                     Honest("bob", "password", 5, << 2 >>))
    /\ entropy \in Entropy({4})
    /\ open = [c \in Conns |-> TRUE]
    /\ net = [c \in Conns |-> "up"]
    /\ wire = [c \in Conns |-> << >>]
    /\ pc = [c \in Conns |-> "hs_recv"]
    /\ loc = [c \in Conns |-> Locals0]
    /\ quota = [c \in Conns |-> 0]
    /\ faults = 0
    /\ Running
    /\ RegistryIdle
    /\ CodecIdle
    /\ UnitIdle

StoreNext ==
    \/ RegisterUser
    \/ SaveUsers
    \/ LoadUsers

StoreSpec == StoreInit /\ [][StoreNext]_vars

\* C33: the file save_users writes is one that load_users reads without an
\* error and turns into exactly the mapping that was saved
C33_SaveLoad ==
    [][SaveUsers => load_users(file'.text) = [ok |-> TRUE, users |-> users_]]_vars

(************************* AESEngine ****************************************)
IV_SIZE == 12
TAG_SIZE == 16

\* the authentication tag of AES-256-GCM: TAG_SIZE bytes that depend on the
\* key, on the AAD, and on every byte of the IV and of the ciphertext, so that
\* a change of any one of them changes the tag
GcmTag(key, iv, aad, ciphertext) ==
    LET total(bytes, i) ==
            LET RECURSIVE Sum(_)
                Sum(j) == IF j > Len(bytes) THEN 0
                          ELSE (IF j % TAG_SIZE = i % TAG_SIZE THEN bytes[j] ELSE 0)
                               + Sum(j + 1)
            IN Sum(1)
        whole(bytes) ==
            LET RECURSIVE Sum(_)
                Sum(j) == IF j > Len(bytes) THEN 0 ELSE bytes[j] + Sum(j + 1)
            IN Sum(1)
    IN [i \in 1..TAG_SIZE |->
           ((17 * key.id) + (31 * Len(aad)) + whole(aad) + (3 * Len(ciphertext))
            + total(iv, i) + total(ciphertext, i)) % 256]

\* the key stream of AES-256 in counter mode, which EVP_EncryptUpdate and
\* EVP_DecryptUpdate both xor onto their input
GcmStream(key, iv, bytes) ==
    [i \in 1..Len(bytes) |-> Xor(bytes[i], ((29 * key.id) + (7 * iv[1]) + (5 * i)) % 256)]

\* AESEngine::encrypt with the IV that RAND_bytes drew: IV || ciphertext || tag
encrypt(plaintext, key, aad, iv) ==
    IF key.size # KEY_SIZE THEN [ok |-> FALSE, data |-> << >>]
    ELSE LET ciphertext == GcmStream(key, iv, plaintext)
         IN [ok |-> TRUE, data |-> iv \o ciphertext \o GcmTag(key, iv, aad, ciphertext)]

\* decrypt that leaves the AAD out of the tag it expects
decrypt_without_aad(encrypted_data, key, aad) ==
    IF key.size # KEY_SIZE THEN [ok |-> FALSE, plaintext |-> << >>]
    ELSE IF Len(encrypted_data) < IV_SIZE + TAG_SIZE
    THEN [ok |-> FALSE, plaintext |-> << >>]
    ELSE LET iv == SubSeq(encrypted_data, 1, IV_SIZE)
             ciphertext_len == Len(encrypted_data) - IV_SIZE - TAG_SIZE
             ciphertext == SubSeq(encrypted_data, IV_SIZE + 1, IV_SIZE + ciphertext_len)
             tag == SubSeq(encrypted_data, Len(encrypted_data) - TAG_SIZE + 1,
                           Len(encrypted_data))
         IN IF tag # GcmTag(key, iv, << >>, ciphertext)
            THEN [ok |-> FALSE, plaintext |-> << >>]
            ELSE [ok |-> TRUE, plaintext |-> GcmStream(key, iv, ciphertext)]

\* AESEngine::decrypt: the plaintext, or ok = FALSE when it throws
decrypt(encrypted_data, key, aad) ==
    IF key.size # KEY_SIZE THEN [ok |-> FALSE, plaintext |-> << >>]
    ELSE IF Len(encrypted_data) < IV_SIZE + TAG_SIZE
    THEN [ok |-> FALSE, plaintext |-> << >>]
    ELSE LET iv == SubSeq(encrypted_data, 1, IV_SIZE)
             ciphertext_len == Len(encrypted_data) - IV_SIZE - TAG_SIZE
             ciphertext == SubSeq(encrypted_data, IV_SIZE + 1, IV_SIZE + ciphertext_len)
             tag == SubSeq(encrypted_data, Len(encrypted_data) - TAG_SIZE + 1,
                           Len(encrypted_data))
         IN IF tag # GcmTag(key, iv, aad, ciphertext)
            THEN [ok |-> FALSE, plaintext |-> << >>]
            ELSE [ok |-> TRUE, plaintext |-> GcmStream(key, iv, ciphertext)]

\* the keys of this part: two of 32 bytes, one of 16 bytes and an empty one
AesKeys == {KeyBytes(1), KeyBytes(2), [id |-> 1, size |-> 16], NoKey}
AesAads == {<< >>, << 7 >>, << 7, 0 >>}

\* a plaintext, a key and an AAD are at hand
AesInit ==
    /\ ServerInit({Pair(Honest("alice", "sesame", 3, << 1 >>),
                        Honest("bob", "password", 5, << 2 >>))},
                  {4}, [c \in Conns |-> 0], 0, 0)
    /\ movedFromKeeps
    /\ Running
    /\ RegistryIdle
    /\ CodecIdle
    /\ messages_ = << >>
    /\ srp_client_ = NoSRPClient
    /\ arrived = 0
    /\ file = [exists |-> FALSE, text |-> << >>, loaded |-> "no"]
    /\ \E plaintext \in {<< >>, << 104 >>, << 104, 105 >>, [i \in 1..17 |-> i]},
          key \in AesKeys, aad \in AesAads :
          aes = [op |-> "start", plaintext |-> plaintext, key |-> key, aad |-> aad,
                 encrypted |-> [ok |-> FALSE, data |-> << >>],
                 given |-> [data |-> << >>, key |-> NoKey, aad |-> << >>],
                 result |-> [ok |-> FALSE, plaintext |-> << >>]]

\* AESEngine::encrypt(plaintext, key, aad)
AesEncrypt ==
    /\ aes.op = "start"
    /\ \E r \in {0, 9} :
          aes' = [aes EXCEPT
              !.op = "encrypted",
              !.encrypted = encrypt(aes.plaintext, aes.key, aes.aad,
                                    [i \in 1..IV_SIZE |-> (r + i) % 256])]
    /\ UNCHANGED << unitRest, messages_, srp_client_, arrived, file >>

\* AESEngine::decrypt of the envelope as it is, of the envelope with one byte
\* altered, of a front part of it, under another key or with another AAD
AesDecrypt ==
    /\ aes.op = "encrypted"
    /\ aes.encrypted.ok
    /\ LET data == aes.encrypted.data
           altered == {[data EXCEPT ![i] = (data[i] + d) % 256] :
                          i \in 1..Len(data), d \in {1, 128}}
           shorter == {SubSeq(data, 1, n) : n \in 0..(Len(data) - 1)}
           attempts ==
               {[data |-> data, key |-> aes.key, aad |-> aes.aad]}
               \cup {[data |-> e, key |-> aes.key, aad |-> aes.aad] :
                        e \in altered \cup shorter}
               \cup {[data |-> data, key |-> k, aad |-> aes.aad] : k \in AesKeys}
               \cup {[data |-> data, key |-> aes.key, aad |-> a] : a \in AesAads}
       IN \E given \in attempts :
             aes' = [aes EXCEPT
                 !.op = "decrypted",
                 !.given = given,
                 !.result = decrypt(given.data, given.key, given.aad)]
    /\ UNCHANGED << unitRest, messages_, srp_client_, arrived, file >>

AesNext ==
    \/ AesEncrypt
    \/ AesDecrypt

AesSpec == AesInit /\ [][AesNext]_vars

\* C34: decrypt(encrypt(plaintext, key, aad), key, aad) returns plaintext; with
\* an altered byte, another key or AAD, fewer than 28 bytes or a key that is
\* not 32 bytes long, decrypt fails and returns no plaintext
C34_AesRoundTrip ==
    aes.op = "decrypted" =>
        IF aes.given = [data |-> aes.encrypted.data, key |-> aes.key, aad |-> aes.aad]
        THEN aes.result = [ok |-> TRUE, plaintext |-> aes.plaintext]
        ELSE aes.result = [ok |-> FALSE, plaintext |-> << >>]

C34_Witness ==
    /\ aes.op = "decrypted"
    /\ aes.given = [data |-> aes.encrypted.data, key |-> aes.key, aad |-> aes.aad]
    /\ aes.plaintext = << 104, 105 >>
    /\ aes.aad = << 7 >>
    /\ aes.result.plaintext = << 104, 105 >>

(************************* two users with one salt **************************)
\* carol, who is not in users.db, registers with the salt that alice's
\* credentials hold (the salt of SRP_REGISTER is the client's choice) and logs
\* in while alice does
SaltInit ==
    TypeInit({Pair(Honest("carol", "guess", 2, << 1 >>),
                   Honest("alice", "sesame", 3, << 1 >>))},
             {4}, [c \in Conns |-> IF c = 1 THEN MaxMsgs ELSE 0], MaxFaults, 0)

SaltSpec == SaltInit /\ [][Next]_vars

\* C39: when verify_authentication runs on the session that init_authentication
\* made from the credentials of the connection's username, the proof is
\* accepted exactly if it is the M computed with that username
C39_VerifyUsesSessionUsername ==
    [][\A c \in Conns :
          (/\ pc[c] = "hs_verify"
           /\ pc'[c] # "hs_verify"
           /\ loc[c].user_id \in DOMAIN sessions_
           /\ loc[c].username \in DOMAIN users_
           /\ sessions_[loc[c].user_id].verifier = users_[loc[c].username].verifier
           /\ sessions_[loc[c].user_id].salt = users_[loc[c].username].salt)
          => ((pc'[c] = "hs_add")
              <=> verify_authentication(sessions_[loc[c].user_id], loc[c].username,
                                        loc[c].M).ok)]_vars

\* the connections whose socket a thread is about to write to, or is writing to
Writing(t) ==
    IF call[t].at = "send" THEN {c \in {t} : SendOk(c)}
    ELSE IF call[t].body = "send_to" /\ call[t].at = "locked"
    THEN {connections_[u] : u \in {v \in DOMAIN connections_ :
                                      v = call[t].user_id /\ open[connections_[v]]}}
    ELSE IF call[t].body = "broadcast" /\ call[t].at = "locked"
    THEN {connections_[u] : u \in {v \in DOMAIN connections_ \ Visited(t) :
                                      v # call[t].user_id /\ open[connections_[v]]}}
    ELSE {}

\* C36: no two threads are at a write to the same connection's socket at the
\* same time
C36_OneWriter ==
    \A t, s \in Conns : t # s => Writing(t) \cap Writing(s) = {}

\* a connection that has been sent INIT and whose worker is in its message
\* loop, with the socket open and the peer there
Joined(c) ==
    /\ alive
    /\ \E i \in 1..Len(wire[c]) : wire[c][i].type = "INIT"
    /\ pc[c] \in {"hs_joined", "cl_start", "cl_loop", "cl_key", "hm_store", "hm_users",
                  "hm_each", "hm_send"}
    /\ open[c]
    /\ net[c] = "up"

\* handle_message has run to its end for the entry m of the history
Handled(m) ==
    \A s \in Conns :
        pc[s] \in {"hm_users", "hm_each", "hm_send"} => loc[s].timestamp # m.timestamp

InInit(c, m) ==
    \E i \in 1..Len(wire[c]) :
        /\ wire[c][i].type = "INIT"
        /\ \E j \in 1..Len(wire[c][i].messages) : wire[c][i].messages[j] = m

InBroadcast(c, m) ==
    \E i \in 1..Len(wire[c]) :
        /\ wire[c][i].type = "BROADCAST"
        /\ wire[c][i].username = m.username
        /\ wire[c][i].timestamp_ms = m.timestamp

SentText(frame) == base64_to_bytes(frame.ciphertext_b64).text

\* C38: the messages of one sender stand in the history in the order they
\* were sent, and their BROADCASTs are written to every socket in that order
C38_SenderOrder ==
    /\ LET sent == {i \in 1..Len(message_history_) :
                        message_history_[i].text[1] \in Conns}
       IN \A i, j \in sent :
             (i < j /\ message_history_[i].text[1] = message_history_[j].text[1])
             => message_history_[i].text[2] > message_history_[j].text[2]
    /\ \A c \in Conns : \A i, j \in 1..Len(wire[c]) :
          (/\ i < j
           /\ wire[c][i].type = "BROADCAST"
           /\ wire[c][j].type = "BROADCAST"
           /\ SentText(wire[c][i])[1] = SentText(wire[c][j])[1])
          => SentText(wire[c][i])[2] > SentText(wire[c][j])[2]

\* both messages of connection 1 have been stored and sent to connection 2
C38_Witness ==
    /\ Len(message_history_) >= 2
    /\ message_history_[Len(message_history_) - 1].text = << 1, 2 >>
    /\ message_history_[Len(message_history_)].text = << 1, 1 >>
    /\ \E i, j \in 1..Len(wire[2]) :
          /\ i < j
          /\ wire[2][i].type = "BROADCAST"
          /\ wire[2][j].type = "BROADCAST"
          /\ SentText(wire[2][i]) = << 1, 2 >>
          /\ SentText(wire[2][j]) = << 1, 1 >>

(************************* the mutexes under a fair scheduler ***************)
\* Of the server's mutexes only message_mutex_ is held while another one,
\* ConnectionManager::mutex_, is requested (the INIT block); users_mutex_,
\* sessions_mutex_ and user_keys_mutex_ are each held in a block that takes no
\* other lock.  A step of a thread inside a call:
Proceed(t) ==
    \/ lock(t)
    \/ unlock(t)
    \/ AddConnection(t)
    \/ AddUsername(t)
    \/ RemoveUsername(t)
    \/ RemoveConnection(t)
    \/ UsernameExists(t)
    \/ GetActiveUsers(t)
    \/ BroadcastEach(t)
    \/ BroadcastEnd(t)
    \/ FanOutEach(t)
    \/ SendTo(t)
    \/ FanOutEnd(t)
    \/ MessageLock(t)
    \/ InitSend(t)

LockNext == \E t \in Conns : Invoke(t) \/ Proceed(t)

\* two server threads: one makes MaxCalls calls, the other one call
LockInit ==
    /\ ServerInit({Pair(Honest("alice", "sesame", 3, << 1 >>),
                        Honest("bob", "password", 5, << 2 >>))},
                  {4}, [c \in Conns |-> 0], 0, 0)
    /\ movedFromKeeps
    /\ Running
    /\ CodecIdle
    /\ UnitIdle
    /\ mutex_ = 0
    /\ call = [c \in Conns |-> [NoCall EXCEPT !.left = IF c = 1 THEN MaxCalls ELSE 1]]
    /\ calls = << >>

\* every thread that can take a step is scheduled, and a socket send returns
LockSpec ==
    /\ LockInit
    /\ [][LockNext]_vars
    /\ \A t \in Conns : WF_vars(Proceed(t))

\* C40: a thread that requests mutex_ or message_mutex_ acquires it
C40_LocksAcquired ==
    \A t \in Conns :
        /\ (call[t].at = "lock") ~> (call[t].at = "locked")
        /\ (call[t].at = "message_lock") ~> (msgLock = t)

\* a thread holds message_mutex_ and waits for mutex_, which another thread
\* holds
C40_Witness ==
    \E t, s \in Conns :
        /\ t # s
        /\ msgLock = t
        /\ call[t].at = "lock"
        /\ mutex_ = s
====
